---- MODULE Spec2Model ----
(***************************************************************************)
(* agentusage: the PTY session, its wait engine, its teardown and the      *)
(* polling loops of the provider drivers, as state machines.               *)
(*                                                                         *)
(* Time is counted in whole units.  A thread::sleep(d) lasts exactly d     *)
(* units, other statements take no time.                                   *)
(***************************************************************************)
EXTENDS Integers, Sequences, FiniteSets, TLC

\* ------------------------------------------------------------------ bounds
\* Largest timeout (in time units) a wait_for call is given.
MaxTimeout == 3
\* Largest poll interval (in time units) a wait_for call is given.
MaxInterval == 2

\* Most entries a parsed snapshot holds.
MaxEntries == 2

\* Most phrases of the detectors that one text shows.
MaxPhrases == 3

\* Most bytes the child writes to its terminal in a run.
MaxStream == 6

\* Iterations of cleanup's 100 ms try_wait loop that fit before its 2 s deadline.
TermWaitPolls == 2

\* Largest --timeout (config.timeout, in seconds) a driver is run with.
MaxConfigTimeout == 1

\* ------------------------------------------- durations of the drivers (ms)
\* kill_registered_sessions: thread::sleep(Duration::from_millis(300))
KillGraceMs == 300

\* let poll_interval = Duration::from_millis(500)
PollMs == 500
\* run_gemini: let idle_timeout = Duration::from_secs(30)
IdleTimeoutMs == 30000
\* run_claude: sleep after a dismissed dialog, sleep after the extra Enter,
\* and the age of the last Enter that triggers a nudge
ClaudeDialogPauseMs == 250
ClaudeHintPauseMs == 180
ClaudeNudgeMs == 850
\* run_claude: last_enter starts one second before usage_start
ClaudeEnterLeadMs == 1000
\* run_gemini: sleeps around the re-sent `/stats session` + Enter
GeminiTypePauseMs == 500
GeminiEnterPauseMs == 250
\* dismiss_dialog: sleep after the dismissing key
DismissPauseMs == 1000

\* ------------------------------------------------------ sessions and pids
\* The PtySession objects of a run (run_all creates one per provider thread).
Sessions == {1, 2}

\* The providers, in the order run_all spawns and joins their threads.
JoinOrder == <<"claude", "codex", "gemini">>
Providers == {JoinOrder[i] : i \in 1..Len(JoinOrder)}

\* UsageData: its entries (each known by its label); `from` records which
\* capture it was parsed from.
EntryLabels == {"session", "week"}
EntryLists == UNION {[1..n -> EntryLabels] : n \in 0..MaxEntries}
UsageData(from, entries) == [from |-> from, entries |-> entries]
NoData == UsageData("none", <<>>)

\* The bytes of the child's output: ESC (written "e") and the bytes the
\* three queries are made of.
Bytes == {"e", "[", "6", "5", "n", "c"}

\* CURSOR_QUERY = ESC[6n, DA1_QUERY = ESC[c, DSR_QUERY = ESC[5n
CURSOR_QUERY == <<"e", "[", "6", "n">>
DA1_QUERY == <<"e", "[", "c">>
DSR_QUERY == <<"e", "[", "5", "n">>
QueryKinds == {"cursor", "da1", "dsr"}
QueryOf(k) ==
    IF k = "cursor" THEN CURSOR_QUERY
    ELSE IF k = "da1" THEN DA1_QUERY ELSE DSR_QUERY

\* The process ids the system hands out; an id is free again once its
\* process has been reaped and no live process has it as its group id.
Pids == {1, 2}

\* ------------------------------------------------------- captured content
\* A capture is a string, here a sequence of characters.  The characters
\* that matter to the wait engine: whitespace, the prompt glyph, other text.
Chars == {" ", ">", "x"}

\* The captures the child can put on the screen.
Contents == {<<>>} \cup {<<c>> : c \in Chars}

\* str::trim().is_empty(): every character is whitespace.
IsBlank(s) == \A i \in 1..Len(s) : s[i] = " "

\* str::contains(char)
Contains(s, ch) == \E i \in 1..Len(s) : s[i] = ch

\* The predicates the callers hand to wait_for:
\*   "any"    |_| true            (wait_for_stable)
\*   "never"  |_| false           (test_wait_for_stops_on_shutdown_signal)
\*   "prompt" content.trim().contains('>')   (run_claude's prompt wait)
Matchers == {"any", "never", "prompt"}

Matches(m, s) ==
    CASE m = "any" -> TRUE
      [] m = "never" -> FALSE
      [] m = "prompt" -> Contains(s, ">")

\* ------------------------------------------------ the decisions of wait_for
\* `if SHUTDOWN.load(..)`: the tick is abandoned when the flag is set.
ShutdownSeen_Ignored(flag) == FALSE

ShutdownSeen(flag) == flag

\* `if start.elapsed() > timeout`
TimedOut_AtDeadline(e, t) == e >= t

TimedOut(e, t) == e > t

\* `if matcher(&content) { if !stabilize { return Ok(content) } .. }`
ReturnsAtOnce_Never(m, st, c) == FALSE

ReturnsAtOnce(m, st, c) == Matches(m, c) /\ ~st

\* `content == last_content && !content.trim().is_empty()`
StableNow(c, last) == c = last /\ ~IsBlank(c)

\* `stable_count >= 3 && matcher_matched`
StableEnough_Two(n, matched) == n >= 2 /\ matched

StableEnough(n, matched) == n >= 3 /\ matched

\* `Ok(Some(status)) if !matcher_matched`
ExitIsError_Always(exited, matched) == exited

ExitIsError(exited, matched) == exited /\ ~matched

\* ------------------------------------------------- the decisions of cleanup
\* `if self.cleaned_up { return; }`
AlreadyCleaned_Never(flag) == FALSE

AlreadyCleaned(flag) == flag

\* `let still_running = matches!(self.child.try_wait(), Ok(None))`
StillRunning_Always(l) == TRUE

StillRunning(l) == l = "running"

\* unregister_group: groups.retain(|g| *g != pgid)
Retain(groups, pgid) == SelectSeq(groups, LAMBDA g : g # pgid)

VARIABLES
    \* process-wide
    SHUTDOWN,        \* static SHUTDOWN: AtomicBool
    \* the child and its terminal, as wait_for sees them
    screen,          \* what capture_pane() returns now
    childExited,     \* the child has exited: try_wait() gives Some(status)
    \* one wait_for call
    wpc,             \* "idle" | "check" | "capture" | "trywait" | "sleep" | "done"
    matcher, stabilize, timeout, interval,     \* its arguments
    elapsed,         \* start.elapsed()
    slept,           \* units of the current thread::sleep(interval) already slept
    content,         \* let content
    last_content, stable_count, matcher_matched,
    wResult,         \* "none" | "ok" | "shutdown" | "timeout" | "exited"
    wOut,            \* the content returned (ok) or the exit capture (exited)
    \* history, for stating the properties
    hist,            \* the captures `content` of this call, in order
    sinceFlag,       \* time this call has run since SHUTDOWN was set
    \* process-wide
    registry,        \* static PROCESS_GROUPS: Mutex<Vec<i32>>
    \* every PtySession s, and the processes of its child's group
    spc,             \* where s is: "none" (not created), "live", a step of
                     \* cleanup ("c_write" .. "c_unreg"), "cleaned", "dropped"
    pid,             \* child.id(); 0 before the spawn
    process_group,   \* Option<i32>: 0 is None
    master_fd,       \* TRUE: an open descriptor; FALSE: -1
    cleaned_up,
    leader,          \* the child: "none" | "running" | "zombie" | "reaped"
    other,           \* another process of the child's group is alive
    polls,           \* sleeps of cleanup's try_wait loop so far
    \* history, for stating the properties
    log,             \* the steps cleanup has performed on s, in order
    closes,          \* how often s's master descriptor has been closed
    \* one provider driver in its polling loops
    dpc,             \* "idle" | "c_usage" | "g_prompt" | "g_stab" | "g_data" | "end"
    policy,          \* config.approval_policy: "Fail" | "Accept"
    cfgTimeout,      \* config.timeout, seconds
    dscreen,         \* what capture_pane() returns: the phrases output so far
    dclock,          \* ms since the loop began (usage_start, prompt_start, data_start)
    last_enter,      \* run_claude: when Enter was last sent, on dclock's scale
    last_activity,   \* run_gemini: when the capture last changed, on dclock's scale
    prev_content,    \* run_gemini: the capture compared against
    dresult,         \* how the driver left its loops
    \* history, for stating the properties
    lateIter,        \* a loop iteration captured after SHUTDOWN was set
    \* ---- kill_registered_sessions (one call)
    kpc,             \* "idle", "term", "kill", "done"
    kgroups,         \* the clone of the registry the call works on
    ki,              \* position of the running `for` loop in kgroups
    kwait,           \* ms the call has slept
    klog,            \* history: the signals the call has sent, <<signal, pgid>>
    \* ---- run_all
    apc,             \* "idle", "spawning", "joining", "returned"
    tstate,          \* per provider thread: "none", "running", "ok", "err", "panic"
    joined,          \* handles joined so far
    results,         \* AllResults.results: providers of the pushed data
    warnings,        \* AllResults.warnings: the keys of the map
    \* ---- read_available and the terminal queries
    stream,          \* history: every byte read from the master so far
    chunkStart,      \* history: length of stream before the last read
    cursor_query_tail, da1_query_tail, dsr_query_tail,
    lastFound,       \* history: the queries the last read detected
    replies,         \* replies written to the master so far, per query
    \* ---- handle_dialog_check and dismiss_dialog (one call)
    hpc,             \* "idle", "in_dismiss", "cx_esc", "cx_skip", "dismissed", "done"
    hcall,           \* the function called: "check" or "dismiss"
    hprov, hpol,     \* provider and approval policy of the call
    htext,           \* the capture the detector is given
    hkind,           \* the kind detected (or passed to dismiss_dialog)
    hkeys,           \* the keys sent to the session, in order
    dret,            \* dismiss_dialog's result: "none", "false", "true"
    hret,            \* handle_dialog_check's result: "none", "Ok(false)", "Ok(true)", "Err"
    hmsg,            \* the error's text: <<tag, message>>
    hskip,           \* history: a numbered skip option was found
    \* ---- the end of a driver: parse, pick_richer, result
    fpc,             \* "idle", "parsed", "picked", "done"
    fprov,           \* the driver
    data_final,      \* parse of the capture taken after the last wait_for_stable
    data_early,      \* parse of the capture that first showed the data
    data,            \* what pick_richer returned
    fret,            \* the driver's result: "none", "Ok", "Err"
    ftag,            \* the tag of the error
    \* ---- the three output parsers (one call)
    ppc,             \* "idle", "parsed"
    pprov,           \* the parser called: its provider
    ptext,           \* the text it is given: a sequence of lines
    pentries,        \* UsageData.entries it returned
    \* ---- parse_reset_minutes_at (one call)
    rpc,             \* "idle", "done"
    rprov,           \* the provider it is called for
    rphrase,         \* reset_info: what the regular expressions capture
    rnow,            \* now, as the wall-clock time of the phrase's zone
    rres,            \* the Option<i64> returned, or the panic
    \* ---- write_all_to_master (one call)
    wrpc,            \* "idle", "loop", "sleeping", "returned"
    wlen,            \* data.len()
    offset,          \* bytes written so far
    retries,         \* the loop's counter
    wret,            \* the result: "none", "Ok", "Err"
    wmsg,            \* the error's message
    wlast,           \* history: the result of the last libc::write
    wagain,          \* history: would-block results since a byte was last written
    wintr,           \* history: EINTR results of this call
    wslept,          \* history: length of the last sleep (ms)
    \* ---- the read buffer of a session
    buffer,          \* PtySession.buffer
    bstream,         \* history: every byte read from the master
    bprev,           \* history: the buffer before the last read
    \* ---- the error report of main and the tail of wait_for's error
    tpc,             \* "idle", "reported", "tailed"
    tmsg,            \* the error's message
    tcode,           \* exit_code_from_error(msg)
    tstripped,       \* strip_error_tags(msg)
    tcontent,        \* exit_content: the characters of the final capture
    ttail,           \* the tail built from it, or the panic
    \* ---- the stages of one driver (run_claude, run_codex, run_gemini)
    gpc,             \* the stage the driver is at
    gprov,           \* the provider of the driver
    gret,            \* "none", "ok", or the stage whose error was returned
    gwaits,          \* history: the results of the prompt waits made
    gchecks,         \* history: handle_dialog_check calls of the prompt stage
    gdismissals,     \* history: dialogs dismissed in the prompt stage
    gtyped,          \* history: the commands the stages typed
    grights,         \* Right presses of the /status fallback
    gstab            \* history: the results of the stabilization steps

waitVars == <<screen, childExited, wpc, matcher, stabilize, timeout, interval,
              elapsed, slept, content, last_content, stable_count,
              matcher_matched, wResult, wOut, hist, sinceFlag>>

lifeVars == <<registry, spc, pid, process_group, master_fd, cleaned_up,
              leader, other, polls, log, closes>>

drvVars == <<dpc, policy, cfgTimeout, dscreen, dclock, last_enter,
             last_activity, prev_content, dresult, lateIter>>

killVars == <<kpc, kgroups, ki, kwait, klog>>

\* The state of the parts of the program that each run on their own.
allVars == <<apc, tstate, joined, results, warnings>>
queryVars == <<stream, chunkStart, cursor_query_tail, da1_query_tail,
               dsr_query_tail, lastFound, replies>>
dlgVars == <<hpc, hcall, hprov, hpol, htext, hkind, hkeys, dret, hret, hmsg,
             hskip>>
finVars == <<fpc, fprov, data_final, data_early, data, fret, ftag>>
parseVars == <<ppc, pprov, ptext, pentries>>
\* The state of the functions that are called with a value and return one.
resetVars == <<rpc, rprov, rphrase, rnow, rres>>
writeVars == <<wrpc, wlen, offset, retries, wret, wmsg, wlast, wagain, wintr,
               wslept>>
bufVars == <<buffer, bstream, bprev>>
textVars == <<tpc, tmsg, tcode, tstripped, tcontent, ttail>>
stageVars == <<gpc, gprov, gret, gwaits, gchecks, gdismissals, gtyped,
               grights, gstab>>
callVars == <<parseVars, resetVars, writeVars, bufVars, textVars>>
laterVars == <<killVars, allVars, queryVars, dlgVars, finVars, callVars,
               stageVars>>

vars == <<SHUTDOWN, waitVars, lifeVars, drvVars, laterVars>>

\* What the steps of wait_for, and what the steps of a session's life,
\* leave alone.
notWait == <<lifeVars, drvVars, laterVars>>
notLife == <<SHUTDOWN, waitVars, drvVars, laterVars>>
notDrive == <<waitVars, lifeVars, laterVars>>

\* ------------------------------------------------------------------- Init
InitWait ==
    /\ screen = <<>>
    /\ childExited = FALSE
    /\ wpc = "idle"
    /\ matcher = "any" /\ stabilize = FALSE /\ timeout = 0 /\ interval = 1
    /\ elapsed = 0 /\ slept = 0
    /\ content = <<>> /\ last_content = <<>>
    /\ stable_count = 0 /\ matcher_matched = FALSE
    /\ wResult = "none" /\ wOut = <<>>
    /\ hist = <<>> /\ sinceFlag = 0

InitLife ==
    /\ registry = <<>>
    /\ spc = [s \in Sessions |-> "none"]
    /\ pid = [s \in Sessions |-> 0]
    /\ process_group = [s \in Sessions |-> 0]
    /\ master_fd = [s \in Sessions |-> FALSE]
    /\ cleaned_up = [s \in Sessions |-> FALSE]
    /\ leader = [s \in Sessions |-> "none"]
    /\ other = [s \in Sessions |-> FALSE]
    /\ polls = [s \in Sessions |-> 0]
    /\ log = [s \in Sessions |-> <<>>]
    /\ closes = [s \in Sessions |-> 0]

InitDrive ==
    /\ dpc = "idle"
    /\ policy = "Fail"
    /\ cfgTimeout = 0
    /\ dscreen = {}
    /\ dclock = 0
    /\ last_enter = 0
    /\ last_activity = 0
    /\ prev_content = {}
    /\ dresult = "none"
    /\ lateIter = FALSE

InitKill ==
    /\ kpc = "idle"
    /\ kgroups = <<>>
    /\ ki = 1
    /\ kwait = 0
    /\ klog = <<>>

InitAll ==
    /\ apc = "idle"
    /\ tstate = [t \in Providers |-> "none"]
    /\ joined = 0
    /\ results = <<>>
    /\ warnings = {}

InitQuery ==
    /\ stream = <<>>
    /\ chunkStart = 0
    /\ cursor_query_tail = <<>>
    /\ da1_query_tail = <<>>
    /\ dsr_query_tail = <<>>
    /\ lastFound = {}
    /\ replies = [q \in QueryKinds |-> 0]

InitDialog ==
    /\ hpc = "idle"
    /\ hcall = "none"
    /\ hprov = "claude"
    /\ hpol = "Fail"
    /\ htext = {}
    /\ hkind = "None"
    /\ hkeys = <<>>
    /\ dret = "none"
    /\ hret = "none"
    /\ hmsg = <<>>
    /\ hskip = FALSE

InitFinish ==
    /\ fpc = "idle"
    /\ fprov = "claude"
    /\ data_final = NoData
    /\ data_early = NoData
    /\ data = NoData
    /\ fret = "none"
    /\ ftag = ""

\* ---- values of parse_reset_minutes_at
\* Option<i64>, and the panic of an arithmetic overflow check.
Some(n) == [kind |-> "Some", minutes |-> n]
None == [kind |-> "None", minutes |-> 0]
Panic == [kind |-> "panic", minutes |-> 0]

\* The phrase: form and captures.
Phrase(form, month, day, hour, min, ampm, tz, N, M) ==
    [form |-> form, month |-> month, day |-> day, hour |-> hour,
     min |-> min, ampm |-> ampm, tz |-> tz, N |-> N, M |-> M]

\* An empty reset_info.
EmptyPhrase == Phrase("empty", 0, 0, 0, 0, "", FALSE, 0, 0)

\* The years `now` is taken from, and the first of them.
Years == {2027, 2028}
FirstYear == CHOOSE y \in Years : \A z \in Years : y <= z

\* The time of a call that does not read the clock.
NoNow == [y |-> FirstYear, m |-> 1, d |-> 1, secs |-> 0]

InitReset ==
    /\ rpc = "idle"
    /\ rprov = "gemini"
    /\ rphrase = EmptyPhrase
    /\ rnow = NoNow
    /\ rres = None

InitWrite ==
    /\ wrpc = "idle"
    /\ wlen = 0
    /\ offset = 0
    /\ retries = 0
    /\ wret = "none"
    /\ wmsg = ""
    /\ wlast = "none"
    /\ wagain = 0
    /\ wintr = 0
    /\ wslept = 0

InitBuf ==
    /\ buffer = <<>>
    /\ bstream = <<>>
    /\ bprev = <<>>

InitText ==
    /\ tpc = "idle"
    /\ tmsg = ""
    /\ tcode = 0
    /\ tstripped = ""
    /\ tcontent = <<>>
    /\ ttail = [kind |-> "tail", chars |-> <<>>]

InitParse ==
    /\ ppc = "idle"
    /\ pprov = "claude"
    /\ ptext = <<>>
    /\ pentries = <<>>

InitStage ==
    /\ gpc = "idle"
    /\ gprov = "claude"
    /\ gret = "none"
    /\ gwaits = <<>>
    /\ gchecks = 0
    /\ gdismissals = 0
    /\ gtyped = <<>>
    /\ grights = 0
    /\ gstab = <<>>

Init ==
    /\ SHUTDOWN = FALSE
    /\ InitWait
    /\ InitLife
    /\ InitDrive
    /\ InitKill
    /\ InitAll
    /\ InitQuery
    /\ InitDialog
    /\ InitFinish
    /\ InitParse
    /\ InitReset
    /\ InitWrite
    /\ InitBuf
    /\ InitText
    /\ InitStage

\* ------------------------------------------------------------ environment
\* pty.rs request_shutdown
RequestShutdown ==
    /\ ~SHUTDOWN
    /\ SHUTDOWN' = TRUE
    /\ UNCHANGED <<waitVars, lifeVars, drvVars, laterVars>>

\* The child repaints: the next capture differs.
ScreenChange(c) ==
    /\ c # screen
    /\ screen' = c
    /\ UNCHANGED <<SHUTDOWN, childExited, wpc, matcher, stabilize, timeout,
                   interval, elapsed, slept, content, last_content,
                   stable_count, matcher_matched, wResult, wOut, hist, sinceFlag>>
    /\ UNCHANGED notWait

\* The child exits by itself.
ChildExit ==
    /\ ~childExited
    /\ childExited' = TRUE
    /\ UNCHANGED <<SHUTDOWN, screen, wpc, matcher, stabilize, timeout,
                   interval, elapsed, slept, content, last_content,
                   stable_count, matcher_matched, wResult, wOut, hist, sinceFlag>>
    /\ UNCHANGED notWait

\* --------------------------------------------------------------- wait_for
\* Entry: the locals of wait_for before its loop.
StartWait(m, st, to, iv) ==
    /\ wpc = "idle"
    /\ wpc' = "check"
    /\ matcher' = m /\ stabilize' = st /\ timeout' = to /\ interval' = iv
    /\ elapsed' = 0 /\ slept' = 0
    /\ content' = <<>> /\ last_content' = <<>>
    /\ stable_count' = 0 /\ matcher_matched' = FALSE
    /\ wResult' = "none" /\ wOut' = <<>>
    /\ hist' = <<>> /\ sinceFlag' = 0
    /\ UNCHANGED <<SHUTDOWN, screen, childExited>>
    /\ UNCHANGED notWait

\* The return of wait_for: the call is over with result r and payload out.
Return(r, out) ==
    /\ wpc' = "done"
    /\ wResult' = r
    /\ wOut' = out

\* Top of the loop: the shutdown flag, then the deadline.
WaitCheck ==
    /\ wpc = "check"
    /\ IF ShutdownSeen(SHUTDOWN)
         THEN Return("shutdown", <<>>)
         ELSE IF TimedOut(elapsed, timeout)
                THEN Return("timeout", <<>>)
                ELSE /\ wpc' = "capture"
                     /\ UNCHANGED <<wResult, wOut>>
    /\ UNCHANGED <<SHUTDOWN, screen, childExited, matcher, stabilize, timeout,
                   interval, elapsed, slept, content, last_content,
                   stable_count, matcher_matched, hist, sinceFlag>>
    /\ UNCHANGED notWait

\* capture_pane, the matcher and the stabilization count.
WaitCapture ==
    /\ wpc = "capture"
    /\ content' = screen
    /\ hist' = Append(hist, screen)
    /\ IF ReturnsAtOnce(matcher, stabilize, screen)
         THEN /\ Return("ok", screen)
              /\ UNCHANGED <<matcher_matched, stable_count>>
         ELSE /\ matcher_matched' = (matcher_matched \/ Matches(matcher, screen))
              /\ IF stabilize
                   THEN IF StableNow(screen, last_content)
                          THEN /\ stable_count' = stable_count + 1
                               /\ IF StableEnough(stable_count', matcher_matched')
                                    THEN Return("ok", screen)
                                    ELSE /\ wpc' = "trywait"
                                         /\ UNCHANGED <<wResult, wOut>>
                          ELSE /\ stable_count' = 0
                               /\ wpc' = "trywait"
                               /\ UNCHANGED <<wResult, wOut>>
                   ELSE /\ wpc' = "trywait"
                        /\ UNCHANGED <<stable_count, wResult, wOut>>
    /\ UNCHANGED <<SHUTDOWN, screen, childExited, matcher, stabilize, timeout,
                   interval, elapsed, slept, last_content, sinceFlag>>
    /\ UNCHANGED notWait

\* child.try_wait(): an exit is an error unless the matcher has matched;
\* otherwise last_content = content and the sleep begins.
WaitTryWait ==
    /\ wpc = "trywait"
    /\ IF ExitIsError(childExited, matcher_matched)
         THEN /\ Return("exited", screen)
              /\ UNCHANGED <<last_content, slept>>
         ELSE /\ last_content' = content
              /\ slept' = 0
              /\ wpc' = "sleep"
              /\ UNCHANGED <<wResult, wOut>>
    /\ UNCHANGED <<SHUTDOWN, screen, childExited, matcher, stabilize, timeout,
                   interval, elapsed, content, stable_count, matcher_matched,
                   hist, sinceFlag>>
    /\ UNCHANGED notWait

\* thread::sleep(interval), one time unit at a step.
WaitSleep ==
    /\ wpc = "sleep"
    /\ slept' = slept + 1
    /\ elapsed' = elapsed + 1
    /\ sinceFlag' = IF SHUTDOWN THEN sinceFlag + 1 ELSE sinceFlag
    /\ wpc' = IF slept' >= interval THEN "check" ELSE "sleep"
    /\ UNCHANGED <<SHUTDOWN, screen, childExited, matcher, stabilize, timeout,
                   interval, content, last_content, stable_count,
                   matcher_matched, wResult, wOut, hist>>
    /\ UNCHANGED notWait

WaitStep == WaitCheck \/ WaitCapture \/ WaitTryWait \/ WaitSleep

NextWait ==
    \/ \E m \in Matchers, st \in BOOLEAN, to \in 0..MaxTimeout, iv \in 1..MaxInterval :
          StartWait(m, st, to, iv)
    \/ WaitCheck
    \/ WaitCapture
    \/ WaitTryWait
    \/ WaitSleep
    \/ RequestShutdown
    \/ ChildExit
    \/ \E c \in Contents : ScreenChange(c)

SpecWait == Init /\ [][NextWait]_vars

\* wait_for's thread runs: its steps are taken, the sleep ends.
LiveWait == SpecWait /\ WF_vars(WaitStep)

\* ----------------------------------------------- processes and their groups
\* Pid p is in use: an unreaped process has it, or a live process has it as
\* its process-group id.
PidInUse(p) ==
    \E t \in Sessions :
        pid[t] = p /\ (leader[t] \in {"running", "zombie"} \/ other[t])

\* kill(-g, sig) as the processes see it: in every group with id g the
\* leaders in L and the other members in O die (a dead child stays a zombie
\* until it is reaped).
Deliver(g, L, O) ==
    /\ leader' = [t \in Sessions |->
                    IF pid[t] = g /\ leader[t] = "running" /\ t \in L
                      THEN "zombie" ELSE leader[t]]
    /\ other' = [t \in Sessions |->
                    IF pid[t] = g /\ t \in O THEN FALSE ELSE other[t]]

\* A member of the child's group forks: the group has another process.
Fork(s) ==
    /\ leader[s] = "running"
    /\ ~other[s]
    /\ other' = [other EXCEPT ![s] = TRUE]
    /\ UNCHANGED <<registry, spc, pid, process_group, master_fd, cleaned_up,
                   leader, polls, log, closes>>
    /\ UNCHANGED notLife

\* The child exits (by itself, on `/exit`, on the hangup of its terminal or
\* some time after a SIGTERM it handles).
LeaderExit(s) ==
    /\ leader[s] = "running"
    /\ leader' = [leader EXCEPT ![s] = "zombie"]
    /\ UNCHANGED <<registry, spc, pid, process_group, master_fd, cleaned_up,
                   other, polls, log, closes>>
    /\ UNCHANGED notLife

\* The other process of the group exits.
OtherExit(s) ==
    /\ other[s]
    /\ other' = [other EXCEPT ![s] = FALSE]
    /\ UNCHANGED <<registry, spc, pid, process_group, master_fd, cleaned_up,
                   leader, polls, log, closes>>
    /\ UNCHANGED notLife

\* ------------------------------------------------------------- PtySession
\* PtySession::new: the child is spawned with a free pid p, it is the leader
\* of group p (setsid in pre_exec; setpgid or getpgid then give p), and p is
\* pushed on the registry.
Spawn(s, p) ==
    /\ spc[s] = "none"
    /\ ~PidInUse(p)
    /\ spc' = [spc EXCEPT ![s] = "live"]
    /\ pid' = [pid EXCEPT ![s] = p]
    /\ process_group' = [process_group EXCEPT ![s] = p]
    /\ registry' = Append(registry, p)
    /\ master_fd' = [master_fd EXCEPT ![s] = TRUE]
    /\ leader' = [leader EXCEPT ![s] = "running"]
    /\ UNCHANGED <<cleaned_up, other, polls, log, closes>>
    /\ UNCHANGED notLife

\* The child.try_wait() of a wait_for tick on a live session reaps the child
\* once it has exited.
TryWaitReap(s) ==
    /\ spc[s] = "live"
    /\ leader[s] = "zombie"
    /\ leader' = [leader EXCEPT ![s] = "reaped"]
    /\ UNCHANGED <<registry, spc, pid, process_group, master_fd, cleaned_up,
                   other, polls, log, closes>>
    /\ UNCHANGED notLife

\* cleanup, called by Drop; a call on a session whose cleanup has returned
\* stands for a Drop after an earlier cleanup.
CleanupEnter(s) ==
    /\ spc[s] \in {"live", "cleaned"}
    /\ IF AlreadyCleaned(cleaned_up[s])
         THEN /\ spc' = [spc EXCEPT ![s] = "dropped"]
              /\ UNCHANGED cleaned_up
         ELSE /\ cleaned_up' = [cleaned_up EXCEPT ![s] = TRUE]
              /\ spc' = [spc EXCEPT ![s] = "c_write"]
    /\ UNCHANGED <<registry, pid, process_group, master_fd, leader, other,
                   polls, log, closes>>
    /\ UNCHANGED notLife

\* let _ = self.send_keys_literal("/exit\n")
CleanupWrite(s) ==
    /\ spc[s] = "c_write"
    /\ log' = [log EXCEPT ![s] = Append(@, "write")]
    /\ spc' = [spc EXCEPT ![s] = "c_close"]
    /\ UNCHANGED <<registry, pid, process_group, master_fd, cleaned_up,
                   leader, other, polls, closes>>
    /\ UNCHANGED notLife

\* if self.master_fd >= 0 { close(self.master_fd); self.master_fd = -1 }
CleanupClose(s) ==
    /\ spc[s] = "c_close"
    /\ IF master_fd[s]
         THEN /\ master_fd' = [master_fd EXCEPT ![s] = FALSE]
              /\ closes' = [closes EXCEPT ![s] = @ + 1]
              /\ log' = [log EXCEPT ![s] = Append(@, "close")]
         ELSE UNCHANGED <<master_fd, closes, log>>
    /\ spc' = [spc EXCEPT ![s] = "c_term"]
    /\ UNCHANGED <<registry, pid, process_group, cleaned_up, leader, other,
                   polls>>
    /\ UNCHANGED notLife

\* kill_group(pgid, SIGTERM): each process of the group dies of it or not
\* (it may ignore or handle the signal).
CleanupTerm(s, L, O) ==
    /\ spc[s] = "c_term"
    /\ Deliver(process_group[s], L, O)
    /\ log' = [log EXCEPT ![s] = Append(@, "term")]
    /\ polls' = [polls EXCEPT ![s] = 0]
    /\ spc' = [spc EXCEPT ![s] = "c_poll"]
    /\ UNCHANGED <<registry, pid, process_group, master_fd, cleaned_up,
                   closes>>
    /\ UNCHANGED notLife

\* while Instant::now() < deadline { match try_wait() { Some => break,
\* None => sleep(100 ms) } }
CleanupPoll(s) ==
    /\ spc[s] = "c_poll"
    /\ IF polls[s] < TermWaitPolls
         THEN IF leader[s] = "running"
                THEN /\ polls' = [polls EXCEPT ![s] = @ + 1]
                     /\ UNCHANGED <<leader, spc, log>>
                ELSE /\ leader' = [leader EXCEPT ![s] = "reaped"]
                     /\ spc' = [spc EXCEPT ![s] = "c_final"]
                     /\ log' = [log EXCEPT ![s] = Append(@, "poll")]
                     /\ UNCHANGED polls
         ELSE /\ spc' = [spc EXCEPT ![s] = "c_final"]
              /\ log' = [log EXCEPT ![s] = Append(@, "poll")]
              /\ UNCHANGED <<leader, polls>>
    /\ UNCHANGED <<registry, pid, process_group, master_fd, cleaned_up,
                   other, closes>>
    /\ UNCHANGED notLife

\* still_running = try_wait() is Ok(None); if so kill_group(pgid, SIGKILL).
CleanupFinal(s) ==
    /\ spc[s] = "c_final"
    /\ IF StillRunning(leader[s])
         THEN /\ Deliver(process_group[s], Sessions, Sessions)
              /\ log' = [log EXCEPT ![s] = Append(@, "kill")]
              /\ spc' = [spc EXCEPT ![s] = "c_reap"]
         ELSE /\ leader' = [leader EXCEPT ![s] =
                               IF @ = "zombie" THEN "reaped" ELSE @]
              /\ spc' = [spc EXCEPT ![s] = "c_unreg"]
              /\ UNCHANGED <<other, log>>
    /\ UNCHANGED <<registry, pid, process_group, master_fd, cleaned_up,
                   polls, closes>>
    /\ UNCHANGED notLife

\* let _ = self.child.wait(): returns once the child has exited.
CleanupReap(s) ==
    /\ spc[s] = "c_reap"
    /\ leader[s] # "running"
    /\ leader' = [leader EXCEPT ![s] = "reaped"]
    /\ log' = [log EXCEPT ![s] = Append(@, "reap")]
    /\ spc' = [spc EXCEPT ![s] = "c_unreg"]
    /\ UNCHANGED <<registry, pid, process_group, master_fd, cleaned_up,
                   other, polls, closes>>
    /\ UNCHANGED notLife

\* if let Some(pgid) = self.process_group.take() { unregister_group(pgid) }
CleanupUnreg(s) ==
    /\ spc[s] = "c_unreg"
    /\ IF process_group[s] # 0
         THEN /\ registry' = Retain(registry, process_group[s])
              /\ process_group' = [process_group EXCEPT ![s] = 0]
              /\ log' = [log EXCEPT ![s] = Append(@, "unreg")]
         ELSE UNCHANGED <<registry, process_group, log>>
    /\ spc' = [spc EXCEPT ![s] = "cleaned"]
    /\ UNCHANGED <<pid, master_fd, cleaned_up, leader, other, polls, closes>>
    /\ UNCHANGED notLife

NextLife ==
    \/ \E s \in Sessions, p \in Pids : Spawn(s, p)
    \/ \E s \in Sessions : Fork(s)
    \/ \E s \in Sessions : LeaderExit(s)
    \/ \E s \in Sessions : OtherExit(s)
    \/ \E s \in Sessions : TryWaitReap(s)
    \/ \E s \in Sessions : CleanupEnter(s)
    \/ \E s \in Sessions : CleanupWrite(s)
    \/ \E s \in Sessions : CleanupClose(s)
    \/ \E s \in Sessions, L \in SUBSET Sessions, O \in SUBSET Sessions :
          CleanupTerm(s, L, O)
    \/ \E s \in Sessions : CleanupPoll(s)
    \/ \E s \in Sessions : CleanupFinal(s)
    \/ \E s \in Sessions : CleanupReap(s)
    \/ \E s \in Sessions : CleanupUnreg(s)

SpecLife == Init /\ [][NextLife]_vars

\* ------------------------------------------------ kill_registered_sessions
\* What the call works on: a clone of the registry taken under the lock.
Snapshot_Nothing(groups) == <<>>

Snapshot(groups) == groups

\* What a step of kill_registered_sessions leaves alone.
notKill == <<SHUTDOWN, waitVars, drvVars, allVars, queryVars, dlgVars,
             finVars, callVars, registry, spc, pid, process_group, master_fd, cleaned_up, polls, log, closes,
    stageVars>>

\* let groups = PROCESS_GROUPS.lock() ... groups.clone()
KillSnapshot ==
    /\ kpc = "idle"
    /\ kgroups' = Snapshot(registry)
    /\ ki' = 1
    /\ kpc' = "term"
    /\ UNCHANGED <<kwait, klog, leader, other>>
    /\ UNCHANGED notKill

\* for pgid in &groups { kill_group(*pgid, libc::SIGTERM) }: one iteration.
KillTerm(L, O) ==
    /\ kpc = "term"
    /\ ki <= Len(kgroups)
    /\ Deliver(kgroups[ki], L, O)
    /\ klog' = Append(klog, <<"TERM", kgroups[ki]>>)
    /\ ki' = ki + 1
    /\ UNCHANGED <<kpc, kgroups, kwait>>
    /\ UNCHANGED notKill

\* thread::sleep(Duration::from_millis(300)) between the two loops.
KillSleep ==
    /\ kpc = "term"
    /\ ki > Len(kgroups)
    /\ kwait' = kwait + KillGraceMs
    /\ kpc' = "kill"
    /\ ki' = 1
    /\ UNCHANGED <<kgroups, klog, leader, other>>
    /\ UNCHANGED notKill

\* for pgid in &groups { kill_group(*pgid, libc::SIGKILL) }: one iteration.
KillKill ==
    /\ kpc = "kill"
    /\ ki <= Len(kgroups)
    /\ Deliver(kgroups[ki], Sessions, Sessions)
    /\ klog' = Append(klog, <<"KILL", kgroups[ki]>>)
    /\ ki' = ki + 1
    /\ UNCHANGED <<kpc, kgroups, kwait>>
    /\ UNCHANGED notKill

\* The second loop is over: the call returns.
KillReturn ==
    /\ kpc = "kill"
    /\ ki > Len(kgroups)
    /\ kpc' = "done"
    /\ UNCHANGED <<kgroups, ki, kwait, klog, leader, other>>
    /\ UNCHANGED notKill

\* The sessions' lives with one call of kill_registered_sessions (from the
\* Ctrl+C handler's thread) running beside them.
NextKill ==
    \/ NextLife
    \/ KillSnapshot
    \/ \E L \in SUBSET Sessions, O \in SUBSET Sessions : KillTerm(L, O)
    \/ KillSleep
    \/ KillKill
    \/ KillReturn

SpecKill == Init /\ [][NextKill]_vars

\* ----------------------------------------------------------------- run_all
\* The arm of `match handle.join()` an outcome takes: Ok(Ok(data)) pushes the
\* data, Ok(Err(e)) and Err(_) (a panic) insert a warning.
JoinArm_PanicLost(outcome) ==
    IF outcome = "ok" THEN "result"
    ELSE IF outcome = "err" THEN "warning" ELSE "none"

JoinArm(outcome) == IF outcome = "ok" THEN "result" ELSE "warning"

\* What a step of run_all or of a provider's thread leaves alone.
notAll == <<SHUTDOWN, waitVars, lifeVars, drvVars, killVars, queryVars,
            dlgVars, finVars, callVars,
    stageVars>>

\* run_all enters thread::scope.
RunAll ==
    /\ apc = "idle"
    /\ apc' = "spawning"
    /\ UNCHANGED <<tstate, joined, results, warnings>>
    /\ UNCHANGED notAll

\* s.spawn(|| run_x(config)) for the next provider; after the third the
\* `for` loop of joins begins.
SpawnThread(t) ==
    /\ apc = "spawning"
    /\ tstate[t] = "none"
    /\ \A i \in 1..Len(JoinOrder) :
          JoinOrder[i] = t => \A j \in 1..(i - 1) : tstate[JoinOrder[j]] # "none"
    /\ tstate' = [tstate EXCEPT ![t] = "running"]
    /\ apc' = IF \A u \in Providers \ {t} : tstate[u] # "none"
                THEN "joining" ELSE apc
    /\ UNCHANGED <<joined, results, warnings>>
    /\ UNCHANGED notAll

\* A provider's driver returns Ok(data), returns Err(e) or panics.
ThreadEnd(t, outcome) ==
    /\ tstate[t] = "running"
    /\ tstate' = [tstate EXCEPT ![t] = outcome]
    /\ UNCHANGED <<apc, joined, results, warnings>>
    /\ UNCHANGED notAll

\* handle.join() of the next handle returns once its thread has ended, and
\* the outcome is recorded.
JoinNext ==
    /\ apc = "joining"
    /\ joined < Len(JoinOrder)
    /\ LET t == JoinOrder[joined + 1]
           arm == JoinArm(tstate[t])
       IN /\ tstate[t] \in {"ok", "err", "panic"}
          /\ results' = IF arm = "result" THEN Append(results, t) ELSE results
          /\ warnings' = IF arm = "warning" THEN warnings \cup {t} ELSE warnings
    /\ joined' = joined + 1
    /\ UNCHANGED <<apc, tstate>>
    /\ UNCHANGED notAll

\* The scope ends and run_all returns AllResults { results, warnings }.
ReturnAll ==
    /\ apc = "joining"
    /\ joined = Len(JoinOrder)
    /\ apc' = "returned"
    /\ UNCHANGED <<tstate, joined, results, warnings>>
    /\ UNCHANGED notAll

NextAll ==
    \/ RunAll
    \/ \E t \in Providers : SpawnThread(t)
    \/ \E t \in Providers, o \in {"ok", "err", "panic"} : ThreadEnd(t, o)
    \/ JoinNext
    \/ ReturnAll

SpecAll == Init /\ [][NextAll]_vars

\* Every running thread goes on to its end, and run_all goes on.
LiveAll ==
    /\ SpecAll
    /\ \A t \in Providers : WF_vars(\E o \in {"ok", "err", "panic"} : ThreadEnd(t, o))
    /\ WF_vars(RunAll \/ JoinNext \/ ReturnAll \/ \E t \in Providers : SpawnThread(t))

\* --------------------------------------------------------- terminal queries
\* combined.windows(query.len()).any(|window| window == query)
AnyWindow(combined, query) ==
    \E i \in 1..(Len(combined) - Len(query) + 1) :
        SubSeq(combined, i, i + Len(query) - 1) = query

\* detect_query_in_stream: its result.
Found(tail, chunk, query) == AnyWindow(tail \o chunk, query)

\* detect_query_in_stream: the tail it leaves.
NewTail_ChunkOnly(tail, chunk, query) ==
    LET tail_len == IF Len(query) >= 1 THEN Len(query) - 1 ELSE 0 IN
    IF tail_len > 0
      THEN IF Len(chunk) >= tail_len
             THEN SubSeq(chunk, Len(chunk) - tail_len + 1, Len(chunk))
             ELSE chunk
      ELSE <<>>

NewTail(tail, chunk, query) ==
    LET combined == tail \o chunk
        tail_len == IF Len(query) >= 1 THEN Len(query) - 1 ELSE 0
    IN IF tail_len > 0
         THEN IF Len(combined) >= tail_len
                THEN SubSeq(combined, Len(combined) - tail_len + 1, Len(combined))
                ELSE combined
         ELSE <<>>

\* respond_to_terminal_queries: the replies one chunk adds, one write of the
\* reply for each query that detect_query_in_stream reports.
Replied(found) == IF found THEN 1 ELSE 0

\* What a read leaves alone.
notQuery == <<SHUTDOWN, waitVars, lifeVars, drvVars, killVars, allVars,
              dlgVars, finVars, callVars,
    stageVars>>

\* One pass of read_available's loop with n > 0: the chunk is scanned for
\* the three queries, the replies are written, the chunk is kept.
ReadChunk(chunk) ==
    /\ LET c == Found(cursor_query_tail, chunk, CURSOR_QUERY)
           a == Found(da1_query_tail, chunk, DA1_QUERY)
           d == Found(dsr_query_tail, chunk, DSR_QUERY)
       IN /\ lastFound' = {k \in QueryKinds :
                              \/ k = "cursor" /\ c
                              \/ k = "da1" /\ a
                              \/ k = "dsr" /\ d}
          /\ replies' = [k \in QueryKinds |->
                            replies[k] + Replied(k \in lastFound')]
    /\ cursor_query_tail' = NewTail(cursor_query_tail, chunk, CURSOR_QUERY)
    /\ da1_query_tail' = NewTail(da1_query_tail, chunk, DA1_QUERY)
    /\ dsr_query_tail' = NewTail(dsr_query_tail, chunk, DSR_QUERY)
    /\ chunkStart' = Len(stream)
    /\ stream' = stream \o chunk
    /\ UNCHANGED notQuery

NextQuery ==
    \E n \in 1..(MaxStream - Len(stream)) :
        \E chunk \in [1..n -> Bytes] : ReadChunk(chunk)

SpecQuery == Init /\ [][NextQuery]_vars

\* ----------------------------------------------------------------- dialogs
\* A text is known by the phrases it shows, lower-cased.  These are the
\* phrases the detectors look for (two of the AUTH_PHRASES stand for all).
AUTH_PHRASES == {"sign in required", "please log in"}
Fragments ==
    {"update available", "new version", "codex", "extension", "terms",
     "accept", "agree", "do you trust the contents", "trust", "directory",
     "sandbox", "do you trust this folder", "select a theme",
     "choose a theme", "color theme", "welcome to claude", "first time"}
    \cup AUTH_PHRASES

\* The texts the detectors are given.
RECURSIVE TextsUpTo(_)
TextsUpTo(n) ==
    IF n = 0 THEN {{}}
    ELSE LET T == TextsUpTo(n - 1)
         IN T \cup {t \cup {f} : t \in T, f \in Fragments}

Texts == TextsUpTo(MaxPhrases)

\* lower.contains(phrase): the phrase is shown, alone or inside a longer one.
Has(text, phrase) ==
    \/ phrase \in text
    \/ /\ phrase = "trust"
       /\ text \cap {"do you trust the contents", "do you trust this folder"} # {}

\* is_auth_required_prompt
is_auth_required_prompt(text) == \E ph \in AUTH_PHRASES : Has(text, ph)

\* looks_like_update_prompt
looks_like_update_prompt(text) ==
    Has(text, "update available") \/ Has(text, "new version")

\* detect_claude_dialog
detect_claude_dialog(text) ==
    IF looks_like_update_prompt(text) THEN "UpdatePrompt"
    ELSE IF is_auth_required_prompt(text) THEN "AuthRequired"
    ELSE IF Has(text, "welcome to claude") \/ Has(text, "first time")
      THEN "FirstRunSetup"
    ELSE "None"

\* detect_codex_dialog
detect_codex_dialog(text) ==
    IF Has(text, "update available") /\ Has(text, "codex") THEN "UpdatePrompt"
    ELSE IF Has(text, "terms") /\ Has(text, "accept") THEN "TermsAcceptance"
    ELSE IF \/ Has(text, "do you trust the contents")
            \/ Has(text, "trust") /\ Has(text, "directory")
      THEN "TrustFolder"
    ELSE IF Has(text, "sandbox") /\ Has(text, "trust") THEN "SandboxTrust"
    ELSE IF is_auth_required_prompt(text) THEN "AuthRequired"
    ELSE "None"

\* detect_gemini_dialog
detect_gemini_dialog_ThemeFirst(text) ==
    IF \/ Has(text, "select a theme")
       \/ Has(text, "choose a theme")
       \/ Has(text, "color theme")
      THEN "FirstRunSetup"
    ELSE IF Has(text, "do you trust this folder") THEN "TrustFolder"
    ELSE IF looks_like_update_prompt(text) /\ ~Has(text, "extension")
      THEN "UpdatePrompt"
    ELSE IF Has(text, "terms") /\ (Has(text, "accept") \/ Has(text, "agree"))
      THEN "TermsAcceptance"
    ELSE IF is_auth_required_prompt(text) THEN "AuthRequired"
    ELSE "None"

detect_gemini_dialog(text) ==
    IF Has(text, "do you trust this folder") THEN "TrustFolder"
    ELSE IF \/ Has(text, "select a theme")
            \/ Has(text, "choose a theme")
            \/ Has(text, "color theme")
      THEN "FirstRunSetup"
    ELSE IF looks_like_update_prompt(text) /\ ~Has(text, "extension")
      THEN "UpdatePrompt"
    ELSE IF Has(text, "terms") /\ (Has(text, "accept") \/ Has(text, "agree"))
      THEN "TermsAcceptance"
    ELSE IF is_auth_required_prompt(text) THEN "AuthRequired"
    ELSE "None"

\* The detector a driver passes for its provider.
DetectFor(prov, text) ==
    IF prov = "claude" THEN detect_claude_dialog(text)
    ELSE IF prov = "codex" THEN detect_codex_dialog(text)
    ELSE detect_gemini_dialog(text)

\* ------------------------------------------------------- provider drivers
\* What the drivers look for in a capture.  A capture is the whole output
\* buffer with the escape sequences stripped, so a phrase once output stays.
\*   "pct"      a percentage the data regex matches (`N% used`, `N% (Resets`)
\*   "hint"     a command-palette row (`showplan`, `/usage`)
\*   "prompt"   what gemini_prompt_ready accepts
\*   "update"   `update available` / `new version`
\*   "auth"     one of the AUTH_PHRASES
\*   "firstrun" `welcome to claude` and `select a theme`
Features == {"pct", "hint", "prompt", "update", "auth", "firstrun"}

\* The phrases a capture with the features sc holds.
PhrasesOf(sc) ==
    (IF "update" \in sc THEN {"update available"} ELSE {})
    \cup (IF "auth" \in sc THEN {"sign in required"} ELSE {})
    \cup (IF "firstrun" \in sc THEN {"welcome to claude", "select a theme"} ELSE {})

\* detect_claude_dialog on a capture of the drivers.
DetectClaude(sc) == detect_claude_dialog(PhrasesOf(sc))

\* detect_gemini_dialog on a capture of the drivers.
DetectGemini(sc) == detect_gemini_dialog(PhrasesOf(sc))

\* dismiss_dialog's result: false for the kinds that need the user.
Dismissible_All(kind) == TRUE

Dismissible(kind) == kind \notin {"AuthRequired", "FirstRunSetup"}

\* handle_dialog_check (and the same decisions inline in run_gemini's prompt
\* loop): "none" is Ok(false), "dismissed" is Ok(true), "error" is the bail!.
HandleDialog(kind, pol) ==
    IF kind = "None" THEN "none"
    ELSE IF pol = "Fail" THEN "error"
    ELSE IF Dismissible(kind) THEN "dismissed"
    ELSE "error"

\* The loop conditions of the drivers' own polling loops.
\* run_claude: `while usage_start.elapsed() < data_timeout`
\* run_gemini: `while data_start.elapsed() < data_timeout`
DataLoopRuns(clock, secs) == clock < secs * 1000

\* run_gemini: `if wall_elapsed >= max_prompt_timeout || idle_elapsed >= idle_timeout`
PromptLoopExpired(clock, activity, secs) ==
    clock >= secs * 1000 \/ clock - activity >= IdleTimeoutMs

\* The clock when dismiss_dialog returns Ok(true): each of its branches ends
\* with a sleep after the key it sent.
AfterDismiss_NoPause(clock) == clock

AfterDismiss(clock) == clock + DismissPauseMs

\* The driver leaves its loops with result r.
Leave(r) ==
    /\ dpc' = "end"
    /\ dresult' = r

\* The child prints: the capture gains a phrase.
AddFeature(f) ==
    /\ f \notin dscreen
    /\ dscreen' = dscreen \cup {f}
    /\ UNCHANGED <<dpc, policy, cfgTimeout, dclock, last_enter, last_activity,
                   prev_content, dresult, lateIter>>
    /\ UNCHANGED <<SHUTDOWN, notDrive>>

\* run_claude has typed `/usage` + Enter and enters its data-wait loop.
StartClaude(pol, secs) ==
    /\ dpc = "idle"
    /\ dpc' = "c_usage"
    /\ policy' = pol
    /\ cfgTimeout' = secs
    /\ dclock' = 0
    /\ last_enter' = 0 - ClaudeEnterLeadMs
    /\ UNCHANGED <<dscreen, last_activity, prev_content, dresult, lateIter>>
    /\ UNCHANGED <<SHUTDOWN, notDrive>>

\* One pass of run_claude's `/usage` data-wait loop.
ClaudeUsageIter ==
    /\ dpc = "c_usage"
    /\ IF ~DataLoopRuns(dclock, cfgTimeout)
         THEN /\ Leave("not_ready")
              /\ UNCHANGED <<dclock, last_enter, lateIter>>
         ELSE /\ lateIter' = (lateIter \/ SHUTDOWN)
              /\ IF "pct" \in dscreen
                   THEN /\ Leave("ready")
                        /\ UNCHANGED <<dclock, last_enter>>
                   ELSE LET d == HandleDialog(DetectClaude(dscreen), policy) IN
                        IF d = "error"
                          THEN /\ Leave("dialog")
                               /\ UNCHANGED <<dclock, last_enter>>
                        ELSE IF d = "dismissed"
                          THEN /\ dclock' = AfterDismiss(dclock) + ClaudeDialogPauseMs
                               /\ UNCHANGED <<dpc, dresult, last_enter>>
                        ELSE IF "hint" \in dscreen
                          THEN /\ last_enter' = dclock
                               /\ dclock' = dclock + ClaudeHintPauseMs
                               /\ UNCHANGED <<dpc, dresult>>
                        ELSE /\ last_enter' =
                                   IF dclock - last_enter >= ClaudeNudgeMs
                                     THEN dclock ELSE last_enter
                             /\ dclock' = dclock + PollMs
                             /\ UNCHANGED <<dpc, dresult>>
    /\ UNCHANGED <<policy, cfgTimeout, dscreen, last_activity, prev_content>>
    /\ UNCHANGED <<SHUTDOWN, notDrive>>

\* run_gemini has launched the CLI and enters its prompt-wait loop.
StartGemini(pol, secs) ==
    /\ dpc = "idle"
    /\ dpc' = "g_prompt"
    /\ policy' = pol
    /\ cfgTimeout' = secs
    /\ dclock' = 0
    /\ last_activity' = 0
    /\ prev_content' = {}
    /\ UNCHANGED <<dscreen, last_enter, dresult, lateIter>>
    /\ UNCHANGED <<SHUTDOWN, notDrive>>

\* One pass of run_gemini's prompt-wait loop.
GeminiPromptIter ==
    /\ dpc = "g_prompt"
    /\ IF PromptLoopExpired(dclock, last_activity, cfgTimeout)
         THEN /\ Leave("timeout")
              /\ UNCHANGED <<dclock, last_activity, prev_content, lateIter>>
         ELSE LET changed == dscreen # prev_content
                  activity == IF changed THEN dclock ELSE last_activity
                  prev == IF changed THEN dscreen ELSE prev_content
                  d == HandleDialog(DetectGemini(dscreen), policy)
              IN
              /\ lateIter' = (lateIter \/ SHUTDOWN)
              /\ IF "prompt" \in dscreen
                   THEN /\ dpc' = "g_stab"
                        /\ last_activity' = activity
                        /\ prev_content' = prev
                        /\ UNCHANGED <<dclock, dresult>>
                   ELSE IF d = "error"
                     THEN /\ Leave("dialog")
                          /\ last_activity' = activity
                          /\ prev_content' = prev
                          /\ UNCHANGED dclock
                   ELSE IF d = "dismissed"
                     THEN /\ dclock' = AfterDismiss(dclock)
                          /\ last_activity' = dclock'
                          /\ prev_content' = {}
                          /\ UNCHANGED <<dpc, dresult>>
                   ELSE /\ dclock' = dclock + PollMs
                        /\ last_activity' = activity
                        /\ prev_content' = prev
                        /\ UNCHANGED <<dpc, dresult>>
    /\ UNCHANGED <<policy, cfgTimeout, dscreen, last_enter>>
    /\ UNCHANGED <<SHUTDOWN, notDrive>>

\* run_gemini between its loops: the result of wait_for_stable is dropped,
\* `/stats session` + Enter are typed, data_start is taken.
GeminiTypeStats ==
    /\ dpc = "g_stab"
    /\ dpc' = "g_data"
    /\ dclock' = 0
    /\ UNCHANGED <<policy, cfgTimeout, dscreen, last_enter, last_activity,
                   prev_content, dresult, lateIter>>
    /\ UNCHANGED <<SHUTDOWN, notDrive>>

\* One pass of run_gemini's data-wait loop.
GeminiDataIter ==
    /\ dpc = "g_data"
    /\ IF ~DataLoopRuns(dclock, cfgTimeout)
         THEN /\ Leave("timeout")
              /\ UNCHANGED <<dclock, lateIter>>
         ELSE /\ lateIter' = (lateIter \/ SHUTDOWN)
              /\ IF "pct" \in dscreen
                   THEN /\ Leave("ready")
                        /\ UNCHANGED dclock
                   ELSE LET d == HandleDialog(DetectGemini(dscreen), policy) IN
                        IF d = "error"
                          THEN /\ Leave("dialog")
                               /\ UNCHANGED dclock
                        ELSE IF d = "dismissed"
                          THEN /\ dclock' = AfterDismiss(dclock)
                                              + GeminiTypePauseMs + GeminiEnterPauseMs
                               /\ UNCHANGED <<dpc, dresult>>
                        ELSE /\ dclock' = dclock + PollMs
                             /\ UNCHANGED <<dpc, dresult>>
    /\ UNCHANGED <<policy, cfgTimeout, dscreen, last_enter, last_activity,
                   prev_content>>
    /\ UNCHANGED <<SHUTDOWN, notDrive>>

NextDrive ==
    \/ \E pol \in {"Fail", "Accept"}, secs \in 0..MaxConfigTimeout :
          StartClaude(pol, secs)
    \/ \E pol \in {"Fail", "Accept"}, secs \in 0..MaxConfigTimeout :
          StartGemini(pol, secs)
    \/ ClaudeUsageIter
    \/ GeminiPromptIter
    \/ GeminiTypeStats
    \/ GeminiDataIter
    \/ \E f \in Features : AddFeature(f)
    \/ RequestShutdown

SpecDrive == Init /\ [][NextDrive]_vars

\* run_gemini's prompt-wait loop on its own, also with a --timeout longer
\* than the idle timeout; only what the loop looks at is printed.
LongTimeout == 31

PromptTimeouts == (0..MaxConfigTimeout) \cup {LongTimeout}

PromptFeatures == {"prompt", "update", "auth"}

NextGemini ==
    \/ \E pol \in {"Fail", "Accept"}, secs \in PromptTimeouts :
          StartGemini(pol, secs)
    \/ GeminiPromptIter
    \/ \E f \in PromptFeatures : AddFeature(f)
    \/ RequestShutdown

SpecGemini == Init /\ [][NextGemini]_vars

\* run_gemini's thread runs: the passes of its loop are taken.
LiveGemini == SpecGemini /\ WF_vars(GeminiPromptIter)

\* ------------------------------------- handle_dialog_check, dismiss_dialog
DialogKinds == {"TrustFolder", "UpdatePrompt", "AuthRequired",
                "TermsAcceptance", "FirstRunSetup", "SandboxTrust", "Unknown"}

\* dialog_error_message: one template per kind, filled with the provider.
dialog_error_message(kind, prov) == <<kind, prov>>

\* bail!("[timeout] {}", dialog_error_message(&kind, provider))
Bail(kind, prov) == <<"[timeout]", dialog_error_message(kind, prov)>>

\* match policy { ApprovalPolicy::Fail => bail!, ApprovalPolicy::Accept => .. }
PolicyBails_Never(pol) == FALSE

PolicyBails(pol) == pol = "Fail"

\* What a step of handle_dialog_check or dismiss_dialog leaves alone.
notDialog == <<SHUTDOWN, waitVars, lifeVars, drvVars, killVars, allVars,
               queryVars, finVars, callVars,
    stageVars>>

\* handle_dialog_check up to its call of dismiss_dialog: capture, detect,
\* and the arm of the policy.
HandleDialogCheck(prov, pol, text) ==
    /\ hpc = "idle"
    /\ hcall' = "check"
    /\ hprov' = prov
    /\ hpol' = pol
    /\ htext' = text
    /\ hkind' = DetectFor(prov, text)
    /\ IF hkind' = "None"
         THEN /\ hret' = "Ok(false)"
              /\ hpc' = "done"
              /\ UNCHANGED hmsg
         ELSE IF PolicyBails(pol)
           THEN /\ hret' = "Err"
                /\ hmsg' = Bail(hkind', prov)
                /\ hpc' = "done"
           ELSE /\ hpc' = "in_dismiss"
                /\ UNCHANGED <<hret, hmsg>>
    /\ UNCHANGED <<hkeys, dret, hskip>>
    /\ UNCHANGED notDialog

\* dismiss_dialog called on its own.
CallDismiss(kind, prov) ==
    /\ hpc = "idle"
    /\ hcall' = "dismiss"
    /\ hprov' = prov
    /\ hkind' = kind
    /\ hpc' = "in_dismiss"
    /\ UNCHANGED <<hpol, htext, hkeys, dret, hret, hmsg, hskip>>
    /\ UNCHANGED notDialog

\* dismiss_dialog: the match on the kind.  For Codex's update prompt it is
\* the start of dismiss_codex_update_prompt (Esc, then a capture).
DismissDialog ==
    /\ hpc = "in_dismiss"
    /\ IF ~Dismissible(hkind)
         THEN /\ dret' = "false"
              /\ hpc' = "dismissed"
              /\ UNCHANGED hkeys
         ELSE IF hkind = "UpdatePrompt"
           THEN IF hprov = "codex"
                  THEN /\ hkeys' = Append(hkeys, "Esc")
                       /\ hpc' = "cx_esc"
                       /\ UNCHANGED dret
                  ELSE /\ hkeys' = Append(hkeys, "Esc")
                       /\ dret' = "true"
                       /\ hpc' = "dismissed"
           ELSE /\ hkeys' = Append(hkeys, "Enter")
                /\ dret' = "true"
                /\ hpc' = "dismissed"
    /\ UNCHANGED <<hcall, hprov, hpol, htext, hkind, hret, hmsg, hskip>>
    /\ UNCHANGED notDialog

\* dismiss_codex_update_prompt after Esc: the capture shows the prompt
\* (`? for shortcuts`) or not, and a numbered skip option (`2.skip`) or not.
CodexAfterEsc(shortcuts, skip) ==
    /\ hpc = "cx_esc"
    /\ IF shortcuts
         THEN /\ dret' = "true"
              /\ hpc' = "dismissed"
              /\ UNCHANGED <<hkeys, hskip>>
         ELSE IF skip
           THEN /\ hkeys' = hkeys \o <<"2", "Enter">>
                /\ hskip' = TRUE
                /\ hpc' = "cx_skip"
                /\ UNCHANGED dret
           ELSE /\ hkeys' = hkeys \o <<"Down", "Enter">>
                /\ dret' = "true"
                /\ hpc' = "dismissed"
                /\ UNCHANGED hskip
    /\ UNCHANGED <<hcall, hprov, hpol, htext, hkind, hret, hmsg>>
    /\ UNCHANGED notDialog

\* dismiss_codex_update_prompt after `2`, Enter: the next capture shows the
\* prompt or not; if not, control falls through to Down, Enter.
CodexAfterSkip(shortcuts) ==
    /\ hpc = "cx_skip"
    /\ hkeys' = IF shortcuts THEN hkeys ELSE hkeys \o <<"Down", "Enter">>
    /\ dret' = "true"
    /\ hpc' = "dismissed"
    /\ UNCHANGED <<hcall, hprov, hpol, htext, hkind, hret, hmsg, hskip>>
    /\ UNCHANGED notDialog

\* dismiss_dialog returns; in handle_dialog_check its result decides between
\* the bail! and Ok(true).
DismissReturn ==
    /\ hpc = "dismissed"
    /\ hpc' = "done"
    /\ IF hcall = "check"
         THEN IF dret = "false"
                THEN /\ hret' = "Err"
                     /\ hmsg' = Bail(hkind, hprov)
                ELSE /\ hret' = "Ok(true)"
                     /\ UNCHANGED hmsg
         ELSE UNCHANGED <<hret, hmsg>>
    /\ UNCHANGED <<hcall, hprov, hpol, htext, hkind, hkeys, dret, hskip>>
    /\ UNCHANGED notDialog

\* The captures a call of handle_dialog_check may meet (no call starts while
\* one is running).
CallTexts == IF hpc = "idle" THEN Texts ELSE {}

NextDialog ==
    \/ \E prov \in Providers, pol \in {"Fail", "Accept"}, text \in CallTexts :
          HandleDialogCheck(prov, pol, text)
    \/ \E kind \in DialogKinds, prov \in Providers : CallDismiss(kind, prov)
    \/ DismissDialog
    \/ \E shortcuts \in BOOLEAN, skip \in BOOLEAN : CodexAfterEsc(shortcuts, skip)
    \/ \E shortcuts \in BOOLEAN : CodexAfterSkip(shortcuts)
    \/ DismissReturn

SpecDialog == Init /\ [][NextDialog]_vars

\* ------------------------------------------------------ the end of a driver
\* pick_richer
pick_richer_Strict(a, b) ==
    IF Len(a.entries) > Len(b.entries) THEN a ELSE b

pick_richer(a, b) ==
    IF Len(a.entries) >= Len(b.entries) THEN a ELSE b

\* if data.entries.is_empty() { bail!("[parse-failure] ...") }
NothingFound_Never(d) == FALSE

NothingFound(d) == Len(d.entries) = 0

\* What the last steps of a driver leave alone.
notFinish == <<SHUTDOWN, waitVars, lifeVars, drvVars, killVars, allVars,
               queryVars, dlgVars, callVars,
    stageVars>>

\* let data_final = parse_x_output(&final_content)?;
\* let data_early = parse_x_output(&content)?;
ParseBoth(prov, final, early) ==
    /\ fpc = "idle"
    /\ fprov' = prov
    /\ data_final' = UsageData("final", final)
    /\ data_early' = UsageData("early", early)
    /\ fpc' = "parsed"
    /\ UNCHANGED <<data, fret, ftag>>
    /\ UNCHANGED notFinish

\* let data = pick_richer(data_final, data_early);
PickRicher ==
    /\ fpc = "parsed"
    /\ data' = pick_richer(data_final, data_early)
    /\ fpc' = "picked"
    /\ UNCHANGED <<fprov, data_final, data_early, fret, ftag>>
    /\ UNCHANGED notFinish

\* The driver's last statements: the bail! on no entry, else Ok(data).
DriverReturn ==
    /\ fpc = "picked"
    /\ IF NothingFound(data)
         THEN /\ fret' = "Err"
              /\ ftag' = "[parse-failure]"
         ELSE /\ fret' = "Ok"
              /\ UNCHANGED ftag
    /\ fpc' = "done"
    /\ UNCHANGED <<fprov, data_final, data_early, data>>
    /\ UNCHANGED notFinish

NextFinish ==
    \/ \E prov \in Providers, final \in EntryLists, early \in EntryLists :
          ParseBoth(prov, final, early)
    \/ PickRicher
    \/ DriverReturn

SpecFinish == Init /\ [][NextFinish]_vars

\* =========================================================== the parsers
\* parse_claude_output, parse_codex_output and parse_gemini_output.  A text
\* is the sequence of its lines; a line is what the parser's regular
\* expressions make of it.  A percentage is held in tenths (424 is 42.4),
\* which is what `\d+(?:\.\d+)?` parsed as f64 and rounded distinguishes
\* here.  reset_info, reset_minutes, spent and requests are left out of the
\* entries; reset_minutes is the subject of parse_reset_minutes_at below.

\* let scan_end = (i + 5).min(lines.len())
ScanSpan == 5

\* Most lines of a text given to parse_claude_output.
MaxLines == 6
\* Most lines of a text given to parse_codex_output or parse_gemini_output.
MaxRows == 3

Smaller(a, b) == IF a < b THEN a ELSE b

\* f64::round on a non-negative value held in tenths: half away from zero.
round(p) == (p + 5) \div 10

\* (percent.round() as u32).min(100); the cast changes nothing below 2^32.
clamped_NoMin(p) == round(p)
clamped(p) == Smaller(round(p), 100)

\* UsageEntry { percent_used: used, percent_remaining: 100 - used,
\*              percent_kind: PercentKind::Used, .. }
\* PercentKind::Used => (clamped, 100 - clamped)
UsedEntry(label, p) ==
    [label |-> label, percent_used |-> clamped(p),
     percent_remaining |-> 100 - clamped(p), percent_kind |-> "Used"]

\* PercentKind::Left => (100 - clamped, clamped); parse_gemini_output:
\* percent_used: 100 - clamped, percent_remaining: clamped
LeftEntry(label, p) ==
    [label |-> label, percent_used |-> 100 - clamped(p),
     percent_remaining |-> clamped(p), percent_kind |-> "Left"]

SeqsUpTo(S, n) == UNION {[1..k -> S] : k \in 0..n}

Line(k, label, p, kind) == [k |-> k, label |-> label, p |-> p, kind |-> kind]

\* ---- parse_claude_output
known_headers == <<"Current session", "Current week (all models)",
                   "Current week (Sonnet only)", "Extra usage">>

\* Percentages of the `N% used` lines of the texts: 42.5 and 150.
ClaudeTenths == {425, 1500}

\* A header line (two of the known headers), a line that pct_re matches,
\* and any other line.
ClaudeLines ==
    {Line("header", known_headers[h], 0, "") : h \in 1..2}
      \cup {Line("pct", "", p, "used") : p \in ClaudeTenths}
      \cup {Line("other", "", 0, "")}

\* The lines of &lines[(i + 1)..scan_end], i counted from 0 as the code
\* does; lines[j] of the code is text[j + 1] here.
ScanWindow(i, n) == {j + 1 : j \in (i + 1)..(Smaller(i + ScanSpan, n) - 1)}

\* if percent.is_none() { if let Some(caps) = pct_re.captures(line) ... }
FirstPct(text, W) ==
    LET P == {j \in W : text[j].k = "pct"}
    IN IF P = {} THEN 0 ELSE CHOOSE j \in P : \A k \in P : j <= k

\* while i < lines.len() { if let Some(label) = header { scan; push } i += 1 }
RECURSIVE HeaderPass(_, _)
HeaderPass(text, i) ==
    IF i >= Len(text) THEN <<>>
    ELSE LET at == FirstPct(text, ScanWindow(i, Len(text)))
         IN (IF text[i + 1].k = "header" /\ at # 0
             THEN <<UsedEntry(text[i + 1].label, text[at].p)>>
             ELSE <<>>) \o HeaderPass(text, i + 1)

\* if entries.is_empty() { percents in order, labelled
\* session/week/sonnet/extra, take(labels.len()) }
Fallback(text) ==
    LET percents == SelectSeq(text, LAMBDA l : l.k = "pct")
    IN [idx \in 1..Smaller(Len(percents), Len(known_headers)) |->
            UsedEntry(known_headers[idx], percents[idx].p)]

parse_claude_output(text) ==
    LET entries == HeaderPass(text, 0)
    IN IF entries = <<>> THEN Fallback(text) ELSE entries

\* ---- parse_codex_output
\* Percentages of the limit lines: 0.5, 42.4 and 150.
CodexTenths == {5, 424, 1500}

\* A section header (one of two), a limit line with its bar, a line of
\* other text without a colon, a line with a colon (key: value), a line
\* that starts with `[`, a box corner or `>`, and an empty line.
CodexLines ==
    {Line("section", x, 0, "") : x \in {"Spark", "Mini"}}
      \cup {Line("limit", "5h", p, kind) :
                p \in CodexTenths, kind \in {"left", "used"}}
      \cup {Line("plain", "", 0, ""), Line("meta", "", 0, ""),
            Line("decoration", "", 0, ""), Line("blank", "", 0, "")}

\* format!("{} {} limit", section, raw_label) / format!("{} limit", raw_label)
CodexLabel(current_section, raw_label) ==
    IF current_section # "" THEN current_section \o " " \o raw_label \o " limit"
    ELSE raw_label \o " limit"

\* current_section after a line ("" stands for None): a header sets it;
\* an empty line, a limit line, a line that starts with `[`, a box corner
\* or `>`, and a line with `:` leave it; any other line clears it.
SectionAfter_NeverCleared(l, current_section) ==
    IF l.k = "section" THEN l.label ELSE current_section
SectionAfter(l, current_section) ==
    CASE l.k = "section" -> l.label
      [] l.k = "plain" -> ""
      [] OTHER -> current_section

\* for raw_line in text.lines() { ... }
RECURSIVE CodexPass(_, _, _)
CodexPass(text, i, current_section) ==
    IF i > Len(text) THEN <<>>
    ELSE LET l == text[i]
         IN (IF l.k = "limit"
             THEN <<(IF l.kind = "left"
                     THEN LeftEntry(CodexLabel(current_section, l.label), l.p)
                     ELSE UsedEntry(CodexLabel(current_section, l.label), l.p))>>
             ELSE <<>>)
              \o CodexPass(text, i + 1, SectionAfter(l, current_section))

parse_codex_output(text) == CodexPass(text, 1, "")

\* ---- parse_gemini_output
\* Percentages of the model rows: 0, 0.5, 42.4, 42.5, 100 and 150.
GeminiTenths == {0, 5, 424, 425, 1000, 1500}

\* A model row that model_re matches, and any other line.
GeminiLines ==
    {Line("model", "gemini-2.5-pro", p, "left") : p \in GeminiTenths}
      \cup {Line("other", "", 0, "")}

\* for raw_line in text.lines() { if let Some(caps) = model_re.captures(line) }
parse_gemini_output(text) ==
    LET rows == SelectSeq(text, LAMBDA l : l.k = "model")
    IN [r \in 1..Len(rows) |-> LeftEntry(rows[r].label, rows[r].p)]

\* What a step of a parser leaves alone.
notParse == <<SHUTDOWN, waitVars, lifeVars, drvVars, killVars, allVars,
              queryVars, dlgVars, finVars, resetVars, writeVars,
              bufVars, textVars,
    stageVars>>

Parsed(provider, text, entries) ==
    /\ ppc' = "parsed"
    /\ pprov' = provider
    /\ ptext' = text
    /\ pentries' = entries
    /\ UNCHANGED notParse

\* The texts a call is made with.
ClaudeTexts == IF ppc = "idle" THEN SeqsUpTo(ClaudeLines, MaxLines) ELSE {}
CodexTexts == IF ppc = "idle" THEN SeqsUpTo(CodexLines, MaxRows) ELSE {}
GeminiTexts == IF ppc = "idle" THEN SeqsUpTo(GeminiLines, MaxRows) ELSE {}

ParseClaude(text) == Parsed("claude", text, parse_claude_output(text))
ParseCodex(text) == Parsed("codex", text, parse_codex_output(text))
ParseGemini(text) == Parsed("gemini", text, parse_gemini_output(text))

\* The caller has its UsageData; the next call starts afresh.
ParseReturn ==
    /\ ppc = "parsed"
    /\ ppc' = "idle"
    /\ pprov' = "claude"
    /\ ptext' = <<>>
    /\ pentries' = <<>>
    /\ UNCHANGED notParse

NextParse ==
    \/ \E text \in ClaudeTexts : ParseClaude(text)
    \/ \E text \in CodexTexts : ParseCodex(text)
    \/ \E text \in GeminiTexts : ParseGemini(text)
    \/ ParseReturn

SpecParse == Init /\ [][NextParse]_vars

\* ===================================================== parse_reset_minutes
\* parse_reset_minutes_at and the three functions it dispatches to.  A
\* phrase is what the regular expressions capture from it: its form and its
\* numbers.  `now` is the wall-clock time in the zone the phrase is read in
\* (Local for Codex, the zone in parentheses for Claude), in whole seconds;
\* the zone keeps one offset, so that differences of wall-clock times are
\* differences of instants.

\* Width of the signed integers of parse_gemini_reset.  It stands for the
\* 64 bits of i64: TLC's own integers have 32.
IntBits == 8

RECURSIVE Pow2(_)
Pow2(n) == IF n = 0 THEN 1 ELSE 2 * Pow2(n - 1)

\* i64::MAX
IntMax == Pow2(IntBits - 1) - 1

\* The value a two's-complement register of IntBits bits holds for v.
Wrap(v) == ((v + Pow2(IntBits - 1)) % Pow2(IntBits)) - Pow2(IntBits - 1)

\* caps[n].parse::<i64>().ok(): a digit string parses unless it exceeds
\* i64::MAX.  The digit string is held as the number it writes.
ParsesI64(n) == n <= IntMax

\* hours * 60 + minutes on i64: with overflow checks the operation that
\* overflows panics, without them the result wraps.
Arith(v, checked) ==
    IF v \in (-IntMax - 1)..IntMax THEN Some(v)
    ELSE IF checked THEN Panic ELSE Some(Wrap(v))

\* parse_gemini_reset: re_hm, then re_h, then re_m.
parse_gemini_reset(ph, checked) ==
    CASE ph.form = "hm" ->
            IF ~ParsesI64(ph.N) \/ ~ParsesI64(ph.M) THEN None
            ELSE LET product == Arith(ph.N * 60, checked)
                 IN IF product.kind = "panic" THEN Panic
                    ELSE Arith(product.minutes + ph.M, checked)
      [] ph.form = "h" ->
            IF ~ParsesI64(ph.N) THEN None ELSE Arith(ph.N * 60, checked)
      [] ph.form = "m" ->
            IF ~ParsesI64(ph.M) THEN None ELSE Some(ph.M)
      [] OTHER -> None

\* ---- chrono's calendar
IsLeap(y) == y % 4 = 0 /\ (y % 100 # 0 \/ y % 400 = 0)

MonthDays(y) ==
    <<31, IF IsLeap(y) THEN 29 ELSE 28, 31, 30, 31, 30, 31, 31, 30, 31, 30, 31>>

\* NaiveDate::from_ymd_opt(year, month, day) is Some
ValidYmd(y, m, d) == m \in 1..12 /\ d \in 1..MonthDays(y)[m]

\* NaiveTime::from_hms_opt(hour, min, 0) is Some
ValidHm(hour, min) == hour \in 0..23 /\ min \in 0..59

RECURSIVE DaysBeforeMonth(_, _)
DaysBeforeMonth(y, m) ==
    IF m = 1 THEN 0 ELSE DaysBeforeMonth(y, m - 1) + MonthDays(y)[m - 1]

RECURSIVE DaysBeforeYear(_)
DaysBeforeYear(y) ==
    IF y <= FirstYear THEN 0
    ELSE DaysBeforeYear(y - 1) + (IF IsLeap(y - 1) THEN 366 ELSE 365)

\* The days from 1 January of FirstYear to the date.
DayNumber(y, m, d) == DaysBeforeYear(y) + DaysBeforeMonth(y, m) + (d - 1)

\* The seconds from the start of FirstYear to a wall-clock time.
Instant(y, m, d, secs) == DayNumber(y, m, d) * 86400 + secs

NowInstant(now) == Instant(now.y, now.m, now.d, now.secs)

\* TimeDelta::num_minutes(): whole minutes, truncated towards zero.
num_minutes(delta) ==
    IF delta >= 0 THEN delta \div 60 ELSE -((-delta) \div 60)

\* if reset_date < now_local.date_naive() { from_ymd_opt(year + 1, ..)? }
RollsOver(now, month, day) ==
    DayNumber(now.y, month, day) < DayNumber(now.y, now.m, now.d)

\* The dated branch of parse_codex_reset and of parse_claude_reset:
\* year of now, roll over to the next year, minutes, None when negative.
DatedReset(now, month, day, hour, min) ==
    IF ~ValidYmd(now.y, month, day) THEN None
    ELSE LET year == IF RollsOver(now, month, day) THEN now.y + 1 ELSE now.y
         IN IF ~ValidYmd(year, month, day) \/ ~ValidHm(hour, min) THEN None
            ELSE LET minutes ==
                         num_minutes(Instant(year, month, day,
                                             hour * 3600 + min * 60)
                                       - NowInstant(now))
                 IN IF minutes < 0 THEN None ELSE Some(minutes)

\* if reset_utc <= now_utc { tomorrow }
WrapsToTomorrow_Never(reset, now) == FALSE
WrapsToTomorrow(reset, now) == reset <= now

\* The time-only branch of both: today, or tomorrow when not after now.
TimeOnlyReset(now, hour, min) ==
    IF ~ValidHm(hour, min) THEN None
    ELSE LET today == Instant(now.y, now.m, now.d, hour * 3600 + min * 60)
             reset_utc == IF WrapsToTomorrow(today, NowInstant(now))
                          THEN today + 86400 ELSE today
         IN Some(num_minutes(reset_utc - NowInstant(now)))

\* parse_12h_time: <<hour, min>> on a 24 h clock, <<>> for None
parse_12h_time(hour, min, ampm) ==
    LET h == IF ampm = "pm" /\ hour # 12 THEN hour + 12
             ELSE IF ampm = "am" /\ hour = 12 THEN 0 ELSE hour
    IN IF h > 23 \/ min > 59 THEN <<>> ELSE <<h, min>>

\* parse_codex_reset: re_with_date, then re_time.
parse_codex_reset(ph, now) ==
    CASE ph.form = "date_time" ->
            DatedReset(now, ph.month, ph.day, ph.hour, ph.min)
      [] ph.form = "time" -> TimeOnlyReset(now, ph.hour, ph.min)
      [] OTHER -> None

\* parse_claude_reset: the zone, then date_time_re, time_re, date_re.
parse_claude_reset(ph, now) ==
    IF ~ph.tz THEN None
    ELSE LET hm == parse_12h_time(ph.hour, ph.min, ph.ampm)
         IN CASE ph.form = "date_time" ->
                    IF hm = <<>> THEN None
                    ELSE DatedReset(now, ph.month, ph.day, hm[1], hm[2])
              [] ph.form = "time" ->
                    IF hm = <<>> THEN None
                    ELSE TimeOnlyReset(now, hm[1], hm[2])
              [] ph.form = "date" -> DatedReset(now, ph.month, ph.day, 0, 0)
              [] OTHER -> None

\* parse_reset_minutes_at
parse_reset_minutes_at(ph, provider, now, checked) ==
    IF ph.form = "empty" THEN None
    ELSE CASE provider = "gemini" -> parse_gemini_reset(ph, checked)
           [] provider = "codex" -> parse_codex_reset(ph, now)
           [] provider = "claude" -> parse_claude_reset(ph, now)
           [] OTHER -> None

\* ---- the inputs
\* Utc::now(): the first and last day of a year, the days around the end
\* of February, and seconds at, just after and long after a minute.
NowDates == {<<1, 1>>, <<2, 28>>, <<2, 29>>, <<3, 1>>, <<12, 31>>}
NowSecs == {0, 30, 43230, 86399}
Nows ==
    {now \in {[y |-> y, m |-> md[1], d |-> md[2], secs |-> s] :
                 y \in Years, md \in NowDates, s \in NowSecs} :
        ValidYmd(now.y, now.m, now.d)}

\* What `(\d{1,2})\s+(\w+)` and `([A-Za-z]+)\s*(\d{1,2})` capture.
PhraseMonths == {1, 2, 3, 12}
PhraseDays == {1, 28, 29, 31}

\* Digit strings of the Gemini phrases, up to one past i64::MAX.
Digits == {0, 1, 2, 3, 59, IntMax, IntMax + 1}

GeminiPhrases ==
    {Phrase("hm", 0, 0, 0, 0, "", FALSE, N, M) : N \in Digits, M \in Digits}
      \cup {Phrase("h", 0, 0, 0, 0, "", FALSE, N, 0) : N \in Digits}
      \cup {Phrase("m", 0, 0, 0, 0, "", FALSE, 0, M) : M \in Digits}
      \cup {Phrase("other", 0, 0, 0, 0, "", FALSE, 0, 0),
            EmptyPhrase}

CodexPhrases ==
    {Phrase("date_time", mo, d, h, mi, "", FALSE, 0, 0) :
        mo \in PhraseMonths, d \in PhraseDays, h \in {0, 12, 24},
        mi \in {0, 1, 59}}
      \cup {Phrase("time", 0, 0, h, mi, "", FALSE, 0, 0) :
                h \in {0, 12, 23, 24}, mi \in {0, 1, 59}}
      \cup {Phrase("other", 0, 0, 0, 0, "", FALSE, 0, 0)}

ClaudePhrases ==
    {Phrase("date_time", mo, d, h, mi, ap, TRUE, 0, 0) :
        mo \in PhraseMonths, d \in PhraseDays, h \in {12, 13},
        mi \in {0, 1}, ap \in {"am", "pm"}}
      \cup {Phrase("time", 0, 0, h, mi, ap, tz, 0, 0) :
                h \in {11, 12, 13}, mi \in {0, 1, 59}, ap \in {"am", "pm"},
                tz \in BOOLEAN}
      \cup {Phrase("date", mo, d, 0, 0, "", tz, 0, 0) :
                mo \in PhraseMonths, d \in PhraseDays, tz \in BOOLEAN}
      \cup {Phrase("other", 0, 0, 0, 0, "", TRUE, 0, 0)}

\* What a call of parse_reset_minutes_at leaves alone.
notReset == <<SHUTDOWN, waitVars, lifeVars, drvVars, killVars, allVars,
              queryVars, dlgVars, finVars, parseVars, writeVars,
              bufVars, textVars,
    stageVars>>

ResetCalled(provider, ph, now, checked) ==
    /\ rpc' = "done"
    /\ rprov' = provider
    /\ rphrase' = ph
    /\ rnow' = now
    /\ rres' = parse_reset_minutes_at(ph, provider, now, checked)
    /\ UNCHANGED notReset

\* The calls that are made.
GeminiCalls == IF rpc = "idle" THEN GeminiPhrases ELSE {}
CodexCalls == IF rpc = "idle" THEN CodexPhrases \X Nows ELSE {}
ClaudeCalls == IF rpc = "idle" THEN ClaudePhrases \X Nows ELSE {}

ResetGemini(ph, checked) == ResetCalled("gemini", ph, NoNow, checked)
ResetCodex(ph, now) == ResetCalled("codex", ph, now, FALSE)
ResetClaude(ph, now) == ResetCalled("claude", ph, now, FALSE)

\* The entry has its reset_minutes; the next call starts afresh.
ResetReturn ==
    /\ rpc = "done"
    /\ rpc' = "idle"
    /\ rprov' = "gemini"
    /\ rphrase' = EmptyPhrase
    /\ rnow' = NoNow
    /\ rres' = None
    /\ UNCHANGED notReset

NextReset ==
    \/ \E ph \in GeminiCalls, checked \in BOOLEAN : ResetGemini(ph, checked)
    \/ \E c \in CodexCalls : ResetCodex(c[1], c[2])
    \/ \E c \in ClaudeCalls : ResetClaude(c[1], c[2])
    \/ ResetReturn

SpecReset == Init /\ [][NextReset]_vars

\* ====================================================== write_all_to_master
\* One call of write_all_to_master; a step is one libc::write and what the
\* loop does with its result.

\* if retries > 200 { bail!("write to PTY would block") }
RetryLimit == 200
\* thread::sleep(Duration::from_millis(5))
RetrySleepMs == 5

\* Most bytes of the data of a call.
MaxData == 2
\* Most EINTR results of a call.
MaxIntr == 2

\* if written > 0 { offset += written; retries = 0; continue }
RetriesAfterWrite(r) == 0

\* if retries > 200
Exhausted_Early(r) == r >= RetryLimit
Exhausted(r) == r > RetryLimit

\* What a step of write_all_to_master leaves alone.
notWrite == <<SHUTDOWN, waitVars, lifeVars, drvVars, killVars, allVars,
              queryVars, dlgVars, finVars, parseVars, resetVars,
              bufVars, textVars,
    stageVars>>

WriteEnds(ret, msg) ==
    /\ wrpc' = "returned"
    /\ wret' = ret
    /\ wmsg' = msg

\* if self.master_fd < 0 { bail!("PTY is not available") };
\* offset = 0; retries = 0; while offset < data.len()
WriteCall(len, fd_open) ==
    /\ wrpc = "idle"
    /\ wlen' = len
    /\ offset' = 0
    /\ retries' = 0
    /\ wlast' = "none"
    /\ wagain' = 0
    /\ wintr' = 0
    /\ wslept' = 0
    /\ IF ~fd_open THEN WriteEnds("Err", "PTY is not available")
       ELSE IF len = 0 THEN WriteEnds("Ok", "")
       ELSE wrpc' = "loop" /\ UNCHANGED <<wret, wmsg>>
    /\ UNCHANGED notWrite

\* written > 0: the kernel took n of the remaining bytes
WriteSome(n) ==
    /\ wrpc = "loop"
    /\ offset' = offset + n
    /\ retries' = RetriesAfterWrite(retries)
    /\ wlast' = "written"
    /\ wagain' = 0
    /\ IF offset + n < wlen THEN UNCHANGED <<wrpc, wret, wmsg>>
       ELSE WriteEnds("Ok", "")
    /\ UNCHANGED <<wlen, wintr, wslept>>
    /\ UNCHANGED notWrite

\* written == 0: break, and Ok(()) after the loop
WriteZero ==
    /\ wrpc = "loop"
    /\ wlast' = "zero"
    /\ WriteEnds("Ok", "")
    /\ UNCHANGED <<wlen, offset, retries, wagain, wintr, wslept>>
    /\ UNCHANGED notWrite

\* Some(libc::EINTR) => continue
WriteIntr ==
    /\ wrpc = "loop"
    /\ wintr < MaxIntr
    /\ wintr' = wintr + 1
    /\ wlast' = "EINTR"
    /\ UNCHANGED <<wrpc, wret, wmsg, wlen, offset, retries, wagain, wslept>>
    /\ UNCHANGED notWrite

\* EAGAIN or EWOULDBLOCK: retries += 1; bail above the limit, else sleep
WriteAgain ==
    /\ wrpc = "loop"
    /\ retries' = retries + 1
    /\ wlast' = "EAGAIN"
    /\ wagain' = wagain + 1
    /\ IF Exhausted(retries + 1)
       THEN WriteEnds("Err", "write to PTY would block")
       ELSE wrpc' = "sleeping" /\ UNCHANGED <<wret, wmsg>>
    /\ UNCHANGED <<wlen, offset, wintr, wslept>>
    /\ UNCHANGED notWrite

\* thread::sleep(Duration::from_millis(5)) is over: the loop goes on
WriteWake ==
    /\ wrpc = "sleeping"
    /\ wrpc' = "loop"
    /\ wslept' = RetrySleepMs
    /\ UNCHANGED <<wret, wmsg, wlen, offset, retries, wlast, wagain, wintr>>
    /\ UNCHANGED notWrite

\* _ => bail!("write to PTY failed: {}", err)
WriteOther ==
    /\ wrpc = "loop"
    /\ wlast' = "other"
    /\ WriteEnds("Err", "write to PTY failed")
    /\ UNCHANGED <<wlen, offset, retries, wagain, wintr, wslept>>
    /\ UNCHANGED notWrite

\* The caller has the result; the next call starts afresh.
WriteReturn ==
    /\ wrpc = "returned"
    /\ wrpc' = "idle"
    /\ wret' = "none"
    /\ wmsg' = ""
    /\ wlen' = 0
    /\ offset' = 0
    /\ retries' = 0
    /\ wlast' = "none"
    /\ wagain' = 0
    /\ wintr' = 0
    /\ wslept' = 0
    /\ UNCHANGED notWrite

\* The byte counts one libc::write can return.
Writable == IF wrpc = "loop" THEN 1..(wlen - offset) ELSE {}

NextWrite ==
    \/ \E len \in 0..MaxData, fd_open \in BOOLEAN : WriteCall(len, fd_open)
    \/ \E n \in Writable : WriteSome(n)
    \/ WriteZero
    \/ WriteIntr
    \/ WriteAgain
    \/ WriteWake
    \/ WriteOther
    \/ WriteReturn

SpecWrite == Init /\ [][NextWrite]_vars

\* ========================================================= the read buffer
\* read_available's buffer and trim_buffer.  The sizes are scaled:
\* MAX_BUFFER_BYTES stands for the 1_000_000 of the source and ReadSize for
\* the 8192 bytes of one libc::read; as there, one read is smaller than the
\* buffer.

\* const MAX_BUFFER_BYTES: usize = 1_000_000
MAX_BUFFER_BYTES == 3
\* let mut tmp = [0u8; 8192]
ReadSize == 2
\* Most bytes the child writes while the buffer is watched.
MaxRead == 7

\* The values of a byte.
BufBytes == {"a", "b"}

\* if self.buffer.len() > MAX_BUFFER_BYTES {
\*     self.buffer.drain(..self.buffer.len() - MAX_BUFFER_BYTES) }
trim_buffer_Kept(b) == b
trim_buffer(b) ==
    IF Len(b) > MAX_BUFFER_BYTES
    THEN SubSeq(b, Len(b) - MAX_BUFFER_BYTES + 1, Len(b))
    ELSE b

\* What a read leaves alone.
notBuf == <<SHUTDOWN, waitVars, lifeVars, drvVars, killVars, allVars,
            queryVars, dlgVars, finVars, parseVars, resetVars, writeVars,
            textVars,
    stageVars>>

\* if n > 0 { self.buffer.extend_from_slice(chunk); self.trim_buffer() }
BufRead(chunk) ==
    /\ buffer' = trim_buffer(buffer \o chunk)
    /\ bstream' = bstream \o chunk
    /\ bprev' = buffer
    /\ UNCHANGED notBuf

\* PtySession::spawn of the next session: buffer: Vec::with_capacity(64 * 1024)
BufNew ==
    /\ bstream # <<>>
    /\ buffer' = <<>>
    /\ bstream' = <<>>
    /\ bprev' = <<>>
    /\ UNCHANGED notBuf

\* What one libc::read can return.
Chunks ==
    UNION {[1..n -> BufBytes] :
             n \in 1..Smaller(ReadSize, MaxRead - Len(bstream))}

NextBuf ==
    \/ \E chunk \in Chunks : BufRead(chunk)
    \/ BufNew

SpecBuf == Init /\ [][NextBuf]_vars

\* ================================================ error messages and tails
\* exit_code_from_error and strip_error_tags of main.rs on strings, and the
\* tail of the capture that wait_for puts into its early-exit error.

\* Most pieces a message is put together from.
MaxPieces == 3
\* Most characters of a capture whose tail is taken.
MaxChars == 4
\* The 4000 of `exit_content.len() > 4000`, scaled.
ExitTailLen == 3

\* s has pat at position i
StartsAt(s, i, pat) ==
    /\ i + Len(pat) - 1 <= Len(s)
    /\ SubSeq(s, i, i + Len(pat) - 1) = pat

\* str::contains
contains(s, pat) == \E i \in 1..Len(s) : StartsAt(s, i, pat)

\* str::replace(pat, ""): the matches are found from the left, and the
\* search goes on after each match.
RECURSIVE replace_from(_, _, _)
replace_from(s, i, pat) ==
    IF i > Len(s) THEN ""
    ELSE IF StartsAt(s, i, pat) THEN replace_from(s, i + Len(pat), pat)
    ELSE SubSeq(s, i, i) \o replace_from(s, i + 1, pat)

replace(s, pat) == replace_from(s, 1, pat)

\* if err.contains("[tool-missing]") { 2 } else if ... { 3 } ... else { 1 }
exit_code_from_error_TimeoutFirst(err) ==
    IF contains(err, "[timeout]") THEN 3
    ELSE IF contains(err, "[tool-missing]") THEN 2
    ELSE IF contains(err, "[parse-failure]") THEN 4
    ELSE 1
exit_code_from_error(err) ==
    IF contains(err, "[tool-missing]") THEN 2
    ELSE IF contains(err, "[timeout]") THEN 3
    ELSE IF contains(err, "[parse-failure]") THEN 4
    ELSE 1

\* msg.replace("[tool-missing] ", "").replace("[timeout] ", "")
\*    .replace("[parse-failure] ", "")
strip_error_tags(msg) ==
    replace(replace(replace(msg, "[tool-missing] "), "[timeout] "),
            "[parse-failure] ")

\* The pieces of the messages: the tags as the drivers write them, a tag
\* without its blank, the halves of a tag, and other text.
Pieces ==
    {"[tool-missing] ", "[timeout] ", "[parse-failure] ", "[timeout]",
     "[time", "out] ", "Error: ", "x"}

RECURSIVE Joined(_)
Joined(ps) == IF ps = <<>> THEN "" ELSE Head(ps) \o Joined(Tail(ps))

\* ---- the tail of wait_for's early-exit error
\* The characters of a capture and the bytes of their UTF-8 encodings:
\* a letter, a two-byte and a three-byte character.
TailChars == {"a", "e2", "b3"}
Utf8Len(c) == CASE c = "a" -> 1 [] c = "e2" -> 2 [] c = "b3" -> 3

\* exit_content.len(): the length in bytes
RECURSIVE ByteLen(_)
ByteLen(cs) ==
    IF cs = <<>> THEN 0
    ELSE Utf8Len(Head(cs)) + ByteLen(Tail(cs))

\* &exit_content[at..]: the characters from byte offset `at` on; the index
\* must be on a character boundary, otherwise the slice panics.
RECURSIVE SliceFrom(_, _)
SliceFrom(cs, at) ==
    IF at = 0 THEN [kind |-> "tail", chars |-> cs]
    ELSE IF cs = <<>> \/ Utf8Len(Head(cs)) > at
         THEN [kind |-> "panic", chars |-> <<>>]
         ELSE SliceFrom(Tail(cs), at - Utf8Len(Head(cs)))

\* let tail = if exit_content.len() > 4000 {
\*     exit_content[exit_content.len() - 4000..].to_string()
\* } else { exit_content }
ExitTail(exit_content) ==
    IF ByteLen(exit_content) > ExitTailLen
    THEN SliceFrom(exit_content, ByteLen(exit_content) - ExitTailLen)
    ELSE [kind |-> "tail", chars |-> exit_content]

\* What a call of these functions leaves alone.
notText == <<SHUTDOWN, waitVars, lifeVars, drvVars, killVars, allVars,
             queryVars, dlgVars, finVars, parseVars, resetVars, writeVars,
             bufVars,
    stageVars>>

\* The messages and captures the calls are made with.
Messages ==
    IF tpc = "idle"
    THEN {Joined(ps) : ps \in SeqsUpTo(Pieces, MaxPieces)}
    ELSE {}
Captures == IF tpc = "idle" THEN SeqsUpTo(TailChars, MaxChars) ELSE {}

\* main: std::process::exit(exit_code_from_error(&msg)) after
\* eprintln!("Error: {}", strip_error_tags(&msg))
ReportError(msg) ==
    /\ tpc' = "reported"
    /\ tmsg' = msg
    /\ tcode' = exit_code_from_error(msg)
    /\ tstripped' = strip_error_tags(msg)
    /\ UNCHANGED <<tcontent, ttail>>
    /\ UNCHANGED notText

\* wait_for: Ok(Some(status)) if !matcher_matched => { tail; bail!(..) }
EarlyExitTail(exit_content) ==
    /\ tpc' = "tailed"
    /\ tcontent' = exit_content
    /\ ttail' = ExitTail(exit_content)
    /\ UNCHANGED <<tmsg, tcode, tstripped>>
    /\ UNCHANGED notText

\* The next call starts afresh.
TextReturn ==
    /\ tpc # "idle"
    /\ tpc' = "idle"
    /\ tmsg' = ""
    /\ tcode' = 0
    /\ tstripped' = ""
    /\ tcontent' = <<>>
    /\ ttail' = [kind |-> "tail", chars |-> <<>>]
    /\ UNCHANGED notText

NextText ==
    \/ \E msg \in Messages : ReportError(msg)
    \/ \E exit_content \in Captures : EarlyExitTail(exit_content)
    \/ TextReturn

SpecText == Init /\ [][NextText]_vars

\* ------------------------------------------------- the stages of a driver
\* run_claude, run_codex and run_gemini from the launch of the CLI to the
\* return: the prompt stage, the stabilization, the command, the wait for
\* the data, the second stabilization, the final capture.  The polling
\* loops the drivers write themselves are the passes above; a call of
\* wait_for or wait_for_stable is one step whose result the environment
\* picks among those the capture allows.
notStage == <<waitVars, lifeVars, killVars, allVars, queryVars, dlgVars,
              finVars, callVars>>

\* `for _ in 0..4`
RightPresses == 4

\* The command a driver types at its prompt.
UsageCommand(prov) ==
    CASE prov = "claude" -> "/usage"
      [] prov = "codex" -> "/status"
      [] prov = "gemini" -> "/stats session"

\* The dialog the provider's detector finds in a capture; the update prompt
\* of codex names codex.
StageDetect(prov, sc) ==
    CASE prov = "claude" -> DetectClaude(sc)
      [] prov = "codex" ->
           detect_codex_dialog(PhrasesOf(sc)
               \cup (IF "update" \in sc THEN {"codex"} ELSE {}))
      [] prov = "gemini" -> DetectGemini(sc)

\* wait_for and wait_for_stable return Ok only if the matcher held on a
\* capture and the shutdown flag was not seen; they can fail in any case
\* (timeout, exited child).
WaitCan(res, matched) == res = "ok" => (matched /\ ~SHUTDOWN)

\* `if let Err(e) = prompt_result { if handle_dialog_check(..)? {
\* session.wait_for(..)? } else { return Err(..) } }`: where a failed prompt
\* wait leads, from the first wait and from the retry.
PromptWaitFailed_Lenient(stage) == "stab"

PromptWaitFailed(stage) == IF stage = "prompt" THEN "check" ELSE "done"

\* `let _ = session.wait_for_stable(..)`: the stage after a stabilization
\* step that returned res, next being the stage that follows in the code.
AfterStabilize_Strict(res, next) == IF res = "err" THEN "done" ELSE next

AfterStabilize(res, next) == next

\* `if pct_re.is_match(&screen) { .. break; } session.send_keys("Right")?`
\* within `for _ in 0..4`: Right is pressed in this pass.
PressRight_Blind(presses, sc) == presses < RightPresses

PressRight(presses, sc) == presses < RightPresses /\ "pct" \notin sc

\* The driver returns: Ok, or the error of the stage named.
StageReturn(r) ==
    /\ gpc' = "done"
    /\ gret' = r

\* A driver is called: the CLI is launched.  run_gemini goes into its own
\* prompt loop, the others call wait_for.
StageStart(prov, pol, secs) ==
    /\ gpc = "idle" /\ dpc = "idle"
    /\ gprov' = prov
    /\ policy' = pol
    /\ cfgTimeout' = secs
    /\ IF prov = "gemini"
         THEN /\ gpc' = "gprompt"
              /\ dpc' = "g_prompt"
              /\ dclock' = 0
              /\ last_activity' = 0
              /\ prev_content' = {}
         ELSE /\ gpc' = "prompt"
              /\ UNCHANGED <<dpc, dclock, last_activity, prev_content>>
    /\ UNCHANGED <<dscreen, last_enter, dresult, lateIter>>
    /\ UNCHANGED <<gret, gwaits, gchecks, gdismissals, gtyped, grights, gstab>>
    /\ UNCHANGED <<SHUTDOWN, notStage>>

\* The prompt wait of run_claude and run_codex, the first and the retry.
PromptWait(res) ==
    /\ gpc \in {"prompt", "retry"}
    /\ WaitCan(res, "prompt" \in dscreen)
    /\ gwaits' = Append(gwaits, res)
    /\ IF res = "ok"
         THEN /\ gpc' = "stab"
              /\ UNCHANGED gret
         ELSE LET to == PromptWaitFailed(gpc) IN
              /\ gpc' = to
              /\ gret' = IF to = "done" THEN "prompt" ELSE gret
    /\ UNCHANGED <<gprov, gchecks, gdismissals, gtyped, grights, gstab>>
    /\ UNCHANGED <<SHUTDOWN, drvVars, notStage>>

\* handle_dialog_check after the first prompt wait failed.
PromptDialogCheck ==
    /\ gpc = "check"
    /\ gchecks' = gchecks + 1
    /\ LET d == HandleDialog(StageDetect(gprov, dscreen), policy) IN
       IF d = "dismissed"
         THEN /\ gdismissals' = gdismissals + 1
              /\ gpc' = "retry"
              /\ UNCHANGED gret
         ELSE /\ StageReturn(IF d = "none" THEN "prompt" ELSE "dialog")
              /\ UNCHANGED gdismissals
    /\ UNCHANGED <<gprov, gwaits, gtyped, grights, gstab>>
    /\ UNCHANGED <<SHUTDOWN, drvVars, notStage>>

\* A stabilization step: after the prompt, and after the data.
Stabilize(res) ==
    /\ gpc \in {"stab", "render"}
    /\ WaitCan(res, TRUE)
    /\ gstab' = Append(gstab, res)
    /\ LET to == AfterStabilize(res, IF gpc = "stab" THEN "type" ELSE "capture")
       IN /\ gpc' = to
          /\ gret' = IF to = "done" THEN "stab" ELSE gret
    /\ UNCHANGED <<gprov, gwaits, gchecks, gdismissals, gtyped, grights>>
    /\ UNCHANGED <<SHUTDOWN, drvVars, notStage>>

\* The usage command and Enter are typed; run_claude and run_gemini go into
\* their data-wait loops, run_codex calls wait_for.
TypeCommand ==
    /\ gpc = "type"
    /\ gtyped' = Append(gtyped, UsageCommand(gprov))
    /\ CASE gprov = "claude" ->
              /\ gpc' = "usage"
              /\ dpc' = "c_usage"
              /\ dclock' = 0
              /\ last_enter' = 0 - ClaudeEnterLeadMs
         [] gprov = "codex" ->
              /\ gpc' = "data"
              /\ UNCHANGED <<dpc, dclock, last_enter>>
         [] gprov = "gemini" ->
              /\ gpc' = "gdata"
              /\ dpc' = "g_data"
              /\ dclock' = 0
              /\ UNCHANGED last_enter
    /\ UNCHANGED <<policy, cfgTimeout, dscreen, last_activity, prev_content,
                   dresult, lateIter>>
    /\ UNCHANGED <<gprov, gret, gwaits, gchecks, gdismissals, grights, gstab>>
    /\ UNCHANGED <<SHUTDOWN, notStage>>

\* What follows a polling loop of the driver: the break of run_gemini's
\* prompt loop, `if !usage_ready { .. }` of run_claude with `/status` typed,
\* `if !data_ready { bail!(..) }` of run_gemini, and the errors the loops
\* return.
LoopLeft ==
    /\ gpc \in {"gprompt", "usage", "gdata"}
    /\ dpc \in {"g_stab", "end"}
    /\ IF dpc = "g_stab"
         THEN /\ gpc' = "stab"
              /\ UNCHANGED <<gret, gtyped>>
         ELSE IF dresult = "ready"
           THEN /\ gpc' = "render"
                /\ UNCHANGED <<gret, gtyped>>
         ELSE IF gpc = "usage" /\ dresult = "not_ready"
           THEN /\ gtyped' = Append(gtyped, "/status")
                /\ gpc' = "status"
                /\ UNCHANGED gret
         ELSE /\ StageReturn(IF gpc = "gprompt" THEN "prompt"
                             ELSE IF dresult = "dialog" THEN "dialog"
                             ELSE "data")
              /\ UNCHANGED gtyped
    /\ UNCHANGED <<gprov, gwaits, gchecks, gdismissals, grights, gstab>>
    /\ UNCHANGED <<SHUTDOWN, drvVars, notStage>>

\* run_claude waits for the tab bar of the status screen.
StatusWait(res) ==
    /\ gpc = "status"
    /\ WaitCan(res, TRUE)
    /\ IF res = "ok"
         THEN /\ gpc' = "rights"
              /\ UNCHANGED gret
         ELSE StageReturn("status")
    /\ UNCHANGED <<gprov, gwaits, gchecks, gdismissals, gtyped, grights, gstab>>
    /\ UNCHANGED <<SHUTDOWN, drvVars, notStage>>

\* One pass of `for _ in 0..4`, or its end.
RightsPass ==
    /\ gpc = "rights"
    /\ IF PressRight(grights, dscreen)
         THEN /\ grights' = grights + 1
              /\ UNCHANGED gpc
         ELSE /\ gpc' = IF grights < RightPresses THEN "render" ELSE "late"
              /\ UNCHANGED grights
    /\ UNCHANGED <<gprov, gret, gwaits, gchecks, gdismissals, gtyped, gstab>>
    /\ UNCHANGED <<SHUTDOWN, drvVars, notStage>>

\* The waits for the data made with wait_for: run_claude's last one after
\* four Rights, run_codex's first one, which also ends on an update prompt
\* (Skip is chosen, `/status` typed again), and its second one.
DataWait(res) ==
    /\ gpc \in {"late", "data", "data2"}
    /\ WaitCan(res, \/ "pct" \in dscreen
                    \/ gpc = "data" /\ "update" \in dscreen)
    /\ IF res = "err"
         THEN /\ StageReturn("data")
              /\ UNCHANGED gtyped
         ELSE IF gpc = "data" /\ "pct" \notin dscreen
           THEN /\ gtyped' = Append(gtyped, "/status")
                /\ gpc' = "data2"
                /\ UNCHANGED gret
         ELSE /\ gpc' = "render"
              /\ UNCHANGED <<gret, gtyped>>
    /\ UNCHANGED <<gprov, gwaits, gchecks, gdismissals, grights, gstab>>
    /\ UNCHANGED <<SHUTDOWN, drvVars, notStage>>

\* The final capture is parsed: data with entries, or the parse-failure.
FinalCapture(res) ==
    /\ gpc = "capture"
    /\ StageReturn(IF res = "ok" THEN "ok" ELSE "parse")
    /\ UNCHANGED <<gprov, gwaits, gchecks, gdismissals, gtyped, grights, gstab>>
    /\ UNCHANGED <<SHUTDOWN, drvVars, notStage>>

NextStage ==
    \/ \E prov \in Providers, pol \in {"Fail", "Accept"},
          secs \in 0..MaxConfigTimeout : StageStart(prov, pol, secs)
    \/ \E res \in {"ok", "err"} : PromptWait(res)
    \/ PromptDialogCheck
    \/ \E res \in {"ok", "err"} : Stabilize(res)
    \/ TypeCommand
    \/ ClaudeUsageIter
    \/ GeminiPromptIter
    \/ GeminiDataIter
    \/ LoopLeft
    \/ \E res \in {"ok", "err"} : StatusWait(res)
    \/ RightsPass
    \/ \E res \in {"ok", "err"} : DataWait(res)
    \/ \E res \in {"ok", "err"} : FinalCapture(res)
    \/ \E f \in Features : AddFeature(f)
    \/ RequestShutdown

SpecStage == Init /\ [][NextStage]_vars

\* =================================================================== claims
\* The capture before capture i of a call; before the first one, the initial
\* last_content (the empty string).
PrevCapture(h, i) == IF i = 1 THEN <<>> ELSE h[i - 1]

\* Capture i is non-blank and equal to the capture before it.
Unchanged(h, i) == h[i] = PrevCapture(h, i) /\ ~IsBlank(h[i])

\* The number of captures at the end of h, each unchanged and non-blank.
RECURSIVE StableRun(_, _)
StableRun(h, i) ==
    IF i = 0 \/ ~Unchanged(h, i) THEN 0 ELSE 1 + StableRun(h, i - 1)

\* Some capture of this call has satisfied the predicate.
SeenMatch == \E i \in 1..Len(hist) : Matches(matcher, hist[i])

\* C1: with stabilize=true the stable count is the number of trailing captures
\* that were non-blank and equal to their predecessor (a changed or blank
\* capture makes it 0), and Ok is returned only with a capture that is
\* non-blank, equal to the three captures before it, after some capture of
\* the call has satisfied the predicate.
C1_StabilizedReturn ==
    stabilize =>
        /\ stable_count = StableRun(hist, Len(hist))
        /\ wResult = "ok" =>
              LET n == Len(hist) IN
              /\ n >= 4
              /\ wOut = hist[n]
              /\ ~IsBlank(wOut)
              /\ \A k \in 1..3 : hist[n - k] = wOut
              /\ SeenMatch

\* A stabilized return after exactly four captures, with a predicate that
\* the blank screen does not satisfy.
C1_Witness ==
    /\ wResult = "ok" /\ stabilize /\ matcher = "prompt"
    /\ Len(hist) = 4 /\ stable_count = 3

\* C2: with stabilize=false, the capture step of a tick returns Ok exactly
\* when the capture satisfies the predicate, with that capture and with no
\* time spent; no earlier capture of the call satisfied the predicate.
C2_ImmediateReturn ==
    /\ [](wResult = "ok" /\ ~stabilize =>
             /\ wOut = hist[Len(hist)]
             /\ Matches(matcher, wOut)
             /\ \A i \in 1..(Len(hist) - 1) : ~Matches(matcher, hist[i]))
    /\ [][(~stabilize /\ hist' # hist) =>
             LET c == hist'[Len(hist')] IN
             /\ c = screen
             /\ \A i \in 1..Len(hist) : ~Matches(matcher, hist[i])
             /\ Matches(matcher, c) =>
                   wpc' = "done" /\ wResult' = "ok" /\ wOut' = c /\ elapsed' = elapsed
             /\ ~Matches(matcher, c) => wResult' = "none"]_vars

\* An immediate return at a later tick than the first.
C2_Witness ==
    /\ wResult = "ok" /\ ~stabilize /\ Len(hist) >= 2 /\ elapsed > 0

\* C3: a tick that starts with the flag set ends the call with the shutdown
\* error and takes no capture; from the moment the flag is set the call runs
\* for at most one poll interval.
C3_ShutdownFirst ==
    /\ [](sinceFlag <= interval)
    /\ [][(wpc = "check" /\ SHUTDOWN /\ wpc' # "check") =>
             wpc' = "done" /\ wResult' = "shutdown" /\ hist' = hist]_vars

\* The flag was set at the very start of a two-unit sleep, after a capture.
C3_Witness ==
    /\ wResult = "shutdown" /\ interval = 2 /\ sinceFlag = 2 /\ Len(hist) >= 1

\* The step of a tick that asks try_wait.
TryWaitStep == wpc = "trywait" /\ wpc' # "trywait"

\* C5: the child check of a tick reports the exit exactly when the child has
\* exited and no capture of the call, this tick's included, has satisfied the
\* predicate; no other step reports it, and wait_for_stable never does.
C5_ExitReported ==
    /\ [](wResult = "exited" => childExited /\ ~SeenMatch)
    /\ [](matcher = "any" => wResult # "exited")
    /\ [][/\ TryWaitStep => ((wResult' = "exited") <=> (childExited /\ ~SeenMatch))
          /\ ~TryWaitStep => (wResult' = "exited" => wResult = "exited")]_vars

\* An exit reported by a stabilizing call at its second tick or later.
C5_Witness ==
    /\ wResult = "exited" /\ stabilize /\ Len(hist) >= 2

\* A tick begins when the previous sleep ends: elapsed - slept is the time at
\* which the current tick began.
TickBegan == IF wpc = "sleep" THEN elapsed - slept ELSE elapsed

\* C6: every call ends; the timeout error is returned only by a tick that
\* began after more than `timeout`, no tick that began later than `timeout`
\* takes a capture, and the call never runs longer than timeout + interval.
C6_Terminates ==
    /\ (wpc = "check") ~> (wpc = "done")
    /\ [](wResult = "timeout" => elapsed > timeout)
    /\ [](wpc \in {"capture", "trywait", "sleep"} => TickBegan <= timeout)
    /\ [](elapsed <= timeout + interval)
    /\ [][hist' # hist => elapsed <= timeout]_vars

\* A call that timed out exactly one interval after its deadline.
C6_Witness ==
    /\ wResult = "timeout" /\ timeout > 0 /\ elapsed = timeout + interval
    /\ Len(hist) >= 2

\* ------------------------------------------------------ teardown (cleanup)
\* s's teardown is over: cleanup has returned.
TornDown(s) == spc[s] \in {"cleaned", "dropped"}

\* C7: once a session's teardown is over, no process of its child's group is
\* alive.
C7_GroupGone ==
    \A s \in Sessions : TornDown(s) => leader[s] # "running" /\ ~other[s]

\* The steps of a teardown that needed no SIGKILL, and of one that did.
TeardownSoft == <<"write", "close", "term", "poll", "unreg">>
TeardownHard == <<"write", "close", "term", "poll", "kill", "reap", "unreg">>

IsPrefix(a, b) == Len(a) <= Len(b) /\ \A i \in 1..Len(a) : a[i] = b[i]

\* The step of s's cleanup that performs `what`.
Performs(s, what) == log'[s] = Append(log[s], what)

\* C8: cleanup performs write, close, SIGTERM, the bounded try_wait loop,
\* SIGKILL and reap (only with the child still running), unregister, in this
\* order; it ends with the child reaped and with the unregister step, which
\* leaves no entry of the session's group in the registry.
C8_CleanupOrder ==
    /\ [](\A s \in Sessions :
            /\ IsPrefix(log[s], TeardownSoft) \/ IsPrefix(log[s], TeardownHard)
            /\ polls[s] <= TermWaitPolls
            /\ TornDown(s) =>
                  /\ log[s] \in {TeardownSoft, TeardownHard}
                  /\ leader[s] = "reaped"
                  /\ process_group[s] = 0)
    /\ [][\A s \in Sessions :
            /\ Performs(s, "kill") => leader[s] = "running"
            /\ Performs(s, "unreg") =>
                  /\ spc'[s] = "cleaned"
                  /\ \A i \in 1..Len(registry') : registry'[i] # pid[s]]_vars

\* A teardown that needed SIGKILL after the whole try_wait loop.
C8_Witness ==
    \E s \in Sessions :
        spc[s] = "cleaned" /\ log[s] = TeardownHard /\ polls[s] = TermWaitPolls

\* C9: a cleanup of a session whose cleanup has already returned changes
\* nothing (no write, close, signal or registry change); the master
\* descriptor is closed once in the session's life.
C9_Idempotent ==
    /\ [](\A s \in Sessions :
            /\ closes[s] <= 1
            /\ TornDown(s) => closes[s] = 1 /\ ~master_fd[s])
    /\ [][\A s \in Sessions :
            (spc[s] = "cleaned" /\ spc'[s] # "cleaned") =>
                /\ spc'[s] = "dropped"
                /\ UNCHANGED registry
                /\ UNCHANGED <<pid, process_group, master_fd, cleaned_up,
                               leader, other, polls, log, closes>>]_vars

\* A second cleanup has run on a session whose first one needed SIGKILL.
C9_Witness ==
    \E s \in Sessions : spc[s] = "dropped" /\ log[s] = TeardownHard

\* The group ids in the registry.
Registered == {registry[i] : i \in 1..Len(registry)}

\* The sessions created and not yet torn down.
Alive == {s \in Sessions : spc[s] # "none" /\ ~TornDown(s)}

\* C10: the registry holds exactly the group ids of the sessions that have
\* been created and whose teardown is not over.
C10_RegistryExact == Registered = {pid[s] : s \in Alive}

\* ------------------------------------------------------ the drivers' loops
\* C4: no polling loop of a driver starts another pass (a capture, possibly
\* keystrokes) once the shutdown flag is set.
C4_DriverLoopsStop == ~lateIter

\* ------------------------------------------------ kill_registered_sessions
\* The signals of kind sig, one per group of gs, in the order of gs.
Signals(sig, gs) == [i \in 1..Len(gs) |-> <<sig, gs[i]>>]

\* A step of the call.
KillStep == kpc' # kpc \/ klog' # klog

\* C11: the call works on the groups registered when it is called; it sends
\* SIGTERM to each of them, sleeps 300 ms, then sends SIGKILL to each of the
\* same groups, so that every SIGKILL comes after the SIGTERM to that group;
\* no step of the call changes the registry.
C11_TermThenKill ==
    /\ [](kpc = "done" =>
            /\ klog = Signals("TERM", kgroups) \o Signals("KILL", kgroups)
            /\ kwait = KillGraceMs)
    /\ [](\A i \in 1..Len(klog) :
            klog[i][1] = "KILL" =>
                /\ kwait = KillGraceMs
                /\ \E j \in 1..(i - 1) : klog[j] = <<"TERM", klog[i][2]>>)
    /\ [][(kpc = "idle" /\ kpc' # "idle") => kgroups' = registry]_vars
    /\ [][KillStep => UNCHANGED registry]_vars

\* A call that found two groups registered has returned.
C11_Witness == kpc = "done" /\ Len(kgroups) = 2 /\ Len(klog) = 4

\* ----------------------------------------------------------------- run_all
\* The providers whose data run_all has pushed.
InResults == {results[i] : i \in 1..Len(results)}

\* C12: run_all returns only with all three threads ended; whatever the
\* other threads' outcomes, a started thread is never kept from ending and
\* run_all then returns; on return each provider is in exactly one of
\* results and warnings (results iff its driver returned Ok), once.
C12_AllJoined ==
    /\ [](apc = "returned" =>
            /\ \A t \in Providers : tstate[t] \in {"ok", "err", "panic"}
            /\ \A t \in Providers : (t \in InResults) # (t \in warnings)
            /\ \A t \in Providers : (t \in InResults) = (tstate[t] = "ok")
            /\ Len(results) = Cardinality(InResults))
    /\ [](\A t \in Providers :
            tstate[t] = "running" => ENABLED ThreadEnd(t, "ok"))
    /\ (apc = "spawning") ~> (apc = "returned")

\* run_all has returned with one success, one error and one panic.
C12_Witness ==
    /\ apc = "returned"
    /\ tstate["claude"] = "panic"
    /\ tstate["codex"] = "ok"
    /\ tstate["gemini"] = "err"

\* --------------------------------------------------------- terminal queries
\* The positions of the stream at which an occurrence of the query ends.
EndsOf(query) ==
    {i \in Len(query)..Len(stream) :
        SubSeq(stream, i - Len(query) + 1, i) = query}

\* The last min(n, bytes seen) bytes of the stream.
LastBytes(n) ==
    IF Len(stream) >= n
      THEN SubSeq(stream, Len(stream) - n + 1, Len(stream)) ELSE stream

\* C13: a read detects a query iff an occurrence of it ends inside the chunk
\* just read, however the stream was cut into chunks; each tail holds the
\* last min(len(query) - 1, bytes seen) bytes of the stream.
C13_SplitRobust ==
    /\ \A k \in QueryKinds :
          (k \in lastFound) <=>
              (\E i \in EndsOf(QueryOf(k)) : i > chunkStart)
    /\ cursor_query_tail = LastBytes(Len(CURSOR_QUERY) - 1)
    /\ da1_query_tail = LastBytes(Len(DA1_QUERY) - 1)
    /\ dsr_query_tail = LastBytes(Len(DSR_QUERY) - 1)

\* A cursor query cut in two was detected by the read that completed it.
C13_Witness ==
    /\ "cursor" \in lastFound
    /\ chunkStart \in EndsOf(<<"e", "[">>)
    /\ Len(stream) \in EndsOf(<<"6", "n">>)

\* C14: the replies written for a query are as many as the occurrences of
\* the query in the output read so far.
C14_EveryQueryAnswered ==
    \A k \in QueryKinds : replies[k] = Cardinality(EndsOf(QueryOf(k)))

\* ----------------------------------------------------------------- dialogs
\* handle_dialog_check has returned.
CheckDone == hpc = "done" /\ hcall = "check"

Dismissed == hpc \in {"dismissed", "done"} /\ dret # "none"

C17_CodexSequences ==
    (Dismissed /\ hkind = "UpdatePrompt" /\ hprov = "codex") =>
        /\ hkeys \in {<<"Esc">>, <<"Esc", "2", "Enter">>,
                      <<"Esc", "Down", "Enter">>}
        /\ (\E i \in 1..Len(hkeys) : hkeys[i] = "Down") => ~hskip

\* The kinds of a provider's detector in its priority order, and the phrase
\* condition of each.
Priority(prov) ==
    IF prov = "claude" THEN <<"UpdatePrompt", "AuthRequired", "FirstRunSetup">>
    ELSE IF prov = "codex"
      THEN <<"UpdatePrompt", "TermsAcceptance", "TrustFolder", "SandboxTrust",
             "AuthRequired">>
    ELSE <<"TrustFolder", "FirstRunSetup", "UpdatePrompt", "TermsAcceptance",
           "AuthRequired">>

Shows(text, P) == \A ph \in P : \E f \in text : ph = f \/ (ph = "trust" /\ f \in
    {"do you trust the contents", "do you trust this folder"})

ShowsAny(text, P) == \E ph \in P : Shows(text, {ph})

Holds(prov, kind, text) ==
    IF kind = "AuthRequired" THEN ShowsAny(text, AUTH_PHRASES)
    ELSE IF prov = "claude"
      THEN IF kind = "UpdatePrompt"
             THEN ShowsAny(text, {"update available", "new version"})
             ELSE ShowsAny(text, {"welcome to claude", "first time"})
    ELSE IF prov = "codex"
      THEN IF kind = "UpdatePrompt" THEN Shows(text, {"update available", "codex"})
           ELSE IF kind = "TermsAcceptance" THEN Shows(text, {"terms", "accept"})
           ELSE IF kind = "TrustFolder"
             THEN \/ Shows(text, {"do you trust the contents"})
                  \/ Shows(text, {"trust", "directory"})
           ELSE Shows(text, {"sandbox", "trust"})
    ELSE IF kind = "TrustFolder" THEN Shows(text, {"do you trust this folder"})
         ELSE IF kind = "FirstRunSetup"
           THEN ShowsAny(text, {"select a theme", "choose a theme", "color theme"})
         ELSE IF kind = "UpdatePrompt"
           THEN /\ ShowsAny(text, {"update available", "new version"})
                /\ ~Shows(text, {"extension"})
         ELSE /\ Shows(text, {"terms"})
              /\ ShowsAny(text, {"accept", "agree"})

C19_NoEmptySuccess ==
    /\ fret = "Ok" => Len(data.entries) >= 1
    /\ (fpc = "done" /\ Len(data_final.entries) = 0
                     /\ Len(data_early.entries) = 0) =>
          fret = "Err" /\ ftag = "[parse-failure]"
    /\ (fpc = "done" /\ fret = "Err") =>
          Len(data_final.entries) = 0 /\ Len(data_early.entries) = 0

\* A driver whose two snapshots were empty has returned.
C19_Witness ==
    /\ fpc = "done"
    /\ fret = "Err"
    /\ Len(data_final.entries) = 0
    /\ Len(data_early.entries) = 0

\* The larger of two numbers.
Larger(x, y) == IF x >= y THEN x ELSE y

\* C20: pick_richer returns its first argument iff that has at least as
\* many entries as the second, else the second; the drivers pass the final
\* snapshot first, so the data reported has max(|final|, |early|) entries
\* and on a tie is the final snapshot.
C20_PickRicher ==
    fpc \in {"picked", "done"} =>
        /\ data \in {data_final, data_early}
        /\ (data = data_final) <=>
              (Len(data_final.entries) >= Len(data_early.entries))
        /\ Len(data.entries) =
              Larger(Len(data_final.entries), Len(data_early.entries))
        /\ Len(data_final.entries) = Len(data_early.entries) =>
              data.from = "final"

\* A tie between two snapshots with different entries.
C20_Witness ==
    /\ fpc = "done"
    /\ Len(data_final.entries) = Len(data_early.entries)
    /\ data_final.entries # data_early.entries
    /\ data = data_final

\* ------------------------------------------------------------------- C21
\* C21: every entry the three parsers return has percent_used and
\* percent_remaining both within 0..100 and adding up to 100, also when
\* the printed percentage exceeds 100 or has a fractional part.
C21_PercentsComplement ==
    \A i \in 1..Len(pentries) :
        /\ pentries[i].percent_used \in 0..100
        /\ pentries[i].percent_remaining \in 0..100
        /\ pentries[i].percent_used + pentries[i].percent_remaining = 100

\* parse_codex_output has returned entries for a text with a limit line
\* above 100% and a limit line with a fractional percentage.
C21_Witness ==
    /\ ppc = "parsed"
    /\ pprov = "codex"
    /\ \E i, j \in 1..Len(ptext) :
          /\ ptext[i].k = "limit" /\ ptext[i].p > 1000
          /\ ptext[j].k = "limit" /\ ptext[j].p % 10 # 0
    /\ Len(pentries) >= 2

\* ------------------------------------------------------------------- C30
\* C30: in parse_claude_output a `N% used` line 1 to 5 lines below a
\* header produces an entry for that header.
C30_FiveLinesBelow ==
    (ppc = "parsed" /\ pprov = "claude") =>
        \A i \in 1..Len(ptext) :
            (/\ ptext[i].k = "header"
             /\ \E j \in (i + 1)..(i + 5) :
                    j <= Len(ptext) /\ ptext[j].k = "pct")
            => \E e \in 1..Len(pentries) : pentries[e].label = ptext[i].label

\* ------------------------------------------------------------------- C22
\* C22: whenever reset_minutes is present it is non-negative, for every
\* provider and every phrase, also for Gemini phrases `Nh Mm` with large
\* digit strings, where 60*N+M is computed in signed arithmetic of the
\* machine's width.
C22_NeverNegative ==
    rres.kind = "Some" => rres.minutes >= 0

\* ------------------------------------------------------------------- C23
\* The wall-clock time of a time-only phrase, on a 24 h clock.
C23_Clock ==
    IF rprov = "claude"
    THEN parse_12h_time(rphrase.hour, rphrase.min, rphrase.ampm)
    ELSE <<rphrase.hour, rphrase.min>>

\* Seconds from now to the next time the clock shows C23_Clock: later
\* today, or else tomorrow.
C23_UntilNext ==
    LET at == C23_Clock[1] * 3600 + C23_Clock[2] * 60
    IN IF at > rnow.secs THEN at - rnow.secs ELSE at + 86400 - rnow.secs

\* C23: for a time-only phrase (Claude `Resets <12h-time> (TZ)`, Codex
\* `resets HH:MM`) reset_minutes is the number of whole minutes from now
\* to the next occurrence of that time, a time at or before now being
\* tomorrow's, and lies in 0..1440.
C23_NextOccurrence ==
    (/\ rpc = "done"
     /\ rprov \in {"claude", "codex"}
     /\ rphrase.form = "time"
     /\ rres.kind = "Some")
    => /\ rres.minutes = C23_UntilNext \div 60
       /\ rres.minutes \in 0..1440

\* A time-only phrase naming exactly the present second was parsed: its
\* next occurrence is tomorrow's.
C23_Witness ==
    /\ rpc = "done"
    /\ rprov = "codex"
    /\ rphrase.form = "time"
    /\ rphrase.hour * 3600 + rphrase.min * 60 = rnow.secs
    /\ rres = Some(1440)

\* ------------------------------------------------------------------- C24
\* The date of a dated phrase is a date of this year before today, is
\* today.
C24_Earlier ==
    /\ ValidYmd(rnow.y, rphrase.month, rphrase.day)
    /\ DayNumber(rnow.y, rphrase.month, rphrase.day)
         < DayNumber(rnow.y, rnow.m, rnow.d)
C24_Today == rphrase.month = rnow.m /\ rphrase.day = rnow.d

\* The time of a dated phrase, in seconds of the day; -1 when the phrase
\* writes no valid time.
C24_At ==
    IF rphrase.form = "date" THEN 0
    ELSE IF rprov = "codex"
         THEN (IF ValidHm(rphrase.hour, rphrase.min)
               THEN rphrase.hour * 3600 + rphrase.min * 60 ELSE -1)
         ELSE LET hm == parse_12h_time(rphrase.hour, rphrase.min, rphrase.ampm)
              IN IF hm = <<>> THEN -1 ELSE hm[1] * 3600 + hm[2] * 60

\* C24: for a dated phrase (Codex `resets HH:MM on D Mon`, Claude
\* `Resets <Mon> <D> [at <time>] (TZ)`) a date strictly earlier than today
\* is taken in the following year and gives a present, positive
\* reset_minutes; a date equal to today whose time has passed gives an
\* absent one.
C24_DatedPhrases ==
    (/\ rpc = "done"
     /\ rprov \in {"claude", "codex"}
     /\ rphrase.form \in {"date_time", "date"}
     /\ rprov = "claude" => rphrase.tz
     /\ C24_At >= 0)
    => /\ C24_Earlier =>
            /\ rres.kind = "Some"
            /\ rres.minutes > 0
            /\ rres.minutes >=
                 (DayNumber(rnow.y + 1, 1, 1)
                    - DayNumber(rnow.y, rnow.m, rnow.d) - 1) * 1440
       /\ (C24_Today /\ C24_At < rnow.secs) => rres.kind = "None"

\* ------------------------------------------------------------------- C25
\* C25: a write to the master is retried without limit on EINTR; on
\* EAGAIN/EWOULDBLOCK it sleeps 5 ms and retries; it fails with `write to
\* PTY would block` exactly when more than 200 would-block results have
\* come with no byte written in between; it fails at once on any other
\* OS error.
C25_WriteRetries ==
    /\ (wrpc = "returned" /\ wmsg = "write to PTY would block")
         <=> (wlast = "EAGAIN" /\ wagain > 200)
    /\ wlast = "EAGAIN" /\ wagain <= 200 => wrpc = "sleeping" \/ wslept = 5
    /\ wlast = "EINTR" => wrpc = "loop"
    /\ wlast = "other" =>
          wrpc = "returned" /\ wret = "Err" /\ wmsg = "write to PTY failed"
    /\ (wrpc = "returned" /\ wret = "Err") =>
          \/ wlast \in {"EAGAIN", "other"}
          \/ wmsg = "PTY is not available"

\* The call failed on its 201st would-block result in a row, which came
\* after a partial write and after an EINTR.
C25_Witness ==
    /\ wrpc = "returned"
    /\ wmsg = "write to PTY would block"
    /\ offset > 0
    /\ wintr > 0
    /\ wagain = 201

\* ------------------------------------------------------------------- C26
\* The last n elements of a sequence.
C26_Last(s, n) == SubSeq(s, Len(s) - n + 1, Len(s))

\* C26: after every read the buffer holds at most MAX_BUFFER_BYTES bytes
\* and is the most recent min(total, MAX_BUFFER_BYTES) bytes read; bytes
\* are only added at its end and only its oldest bytes are dropped.
C26_RecentBytes ==
    /\ Len(buffer) <= MAX_BUFFER_BYTES
    /\ buffer = C26_Last(bstream, Smaller(Len(bstream), MAX_BUFFER_BYTES))
    /\ \E n \in 0..ReadSize :
          LET kept == Len(buffer) - n
          IN /\ kept \in 0..Len(bprev)
             /\ C26_Last(bprev, kept) = SubSeq(buffer, 1, kept)
             /\ kept < Len(bprev) => Len(buffer) = MAX_BUFFER_BYTES

\* More bytes were read than the buffer holds, and the last read both
\* added bytes and dropped some.
C26_Witness ==
    /\ Len(bstream) > MAX_BUFFER_BYTES + 1
    /\ Len(buffer) = MAX_BUFFER_BYTES
    /\ Len(bprev) = MAX_BUFFER_BYTES
    /\ buffer # bprev

\* ------------------------------------------------------------------- C27
\* C27: the error of an early child exit carries the trailing ExitTailLen
\* characters of the final capture (all of it when shorter), whatever the
\* capture holds, multi-byte characters included; building the tail never
\* fails.
C27_TailOfCharacters ==
    tpc = "tailed" =>
        /\ ttail.kind = "tail"
        /\ ttail.chars =
             SubSeq(tcontent,
                    Len(tcontent) - Smaller(Len(tcontent), ExitTailLen) + 1,
                    Len(tcontent))

C29_StripIdempotent ==
    tpc = "reported" =>
        /\ strip_error_tags(tstripped) = tstripped
        /\ (/\ ~contains(tmsg, "[tool-missing]")
            /\ ~contains(tmsg, "[timeout]")
            /\ ~contains(tmsg, "[parse-failure]")) => tstripped = tmsg

\* ------------------------------------------------------------------- C31
\* The lines of a Codex text that set or clear the section, before line i.
C31_Turns(i) == {j \in 1..(i - 1) : ptext[j].k \in {"section", "plain"}}

\* The section active at line i: that of the last header before it, unless
\* a line of other text came after that header.
C31_Active(i) ==
    IF C31_Turns(i) = {} THEN ""
    ELSE LET j == CHOOSE t \in C31_Turns(i) : \A u \in C31_Turns(i) : u <= t
         IN IF ptext[j].k = "section" THEN ptext[j].label ELSE ""

\* The limit lines of the text, in order.
C31_Limits == SelectSeq([i \in 1..Len(ptext) |-> i],
                        LAMBDA i : ptext[i].k = "limit")

\* C31: parse_codex_output labels a limit line `<section> <label> limit`
\* when a section header has been seen and not cleared since, `<label>
\* limit` otherwise; each header replaces the section, limit lines, blank
\* lines, decoration lines and lines with `:` keep it, any other line
\* clears it.
C31_SectionLabels ==
    (ppc = "parsed" /\ pprov = "codex") =>
        /\ Len(pentries) = Len(C31_Limits)
        /\ \A n \in 1..Len(pentries) :
              LET i == C31_Limits[n]
              IN pentries[n].label =
                   (IF C31_Active(i) = "" THEN ptext[i].label \o " limit"
                    ELSE C31_Active(i) \o " " \o ptext[i].label \o " limit")

\* A header, a line of other text and then a limit line: the limit line
\* is labelled without the section.
C31_Witness ==
    /\ ppc = "parsed"
    /\ pprov = "codex"
    /\ Len(ptext) = 3
    /\ ptext[1].k = "section"
    /\ ptext[2].k = "plain"
    /\ ptext[3].k = "limit"
    /\ pentries[1].label = "5h limit"

\* ------------------------------------------------------------------- C40
\* The header at line i of a Claude text has a `N% used` line of its own:
\* one below it and above the next header.
C40_OwnPct(i) ==
    \E j \in (i + 1)..Len(ptext) :
        /\ ptext[j].k = "pct"
        /\ \A h \in (i + 1)..(j - 1) : ptext[h].k # "header"

\* C40: in the header pass of parse_claude_output each `N% used` line
\* gives at most one entry; a header without a percentage line of its own
\* does not take the percentage of the section that follows.
C40_OneEntryPerLine ==
    (ppc = "parsed" /\ pprov = "claude" /\ HeaderPass(ptext, 0) # <<>>) =>
        /\ Len(pentries) <=
             Cardinality({j \in 1..Len(ptext) : ptext[j].k = "pct"})
        /\ \A i \in 1..Len(ptext) :
              (/\ ptext[i].k = "header"
               /\ ~C40_OwnPct(i)
               /\ \A h \in 1..Len(ptext) :
                     (h # i /\ ptext[h].k = "header")
                        => ptext[h].label # ptext[i].label)
              => \A e \in 1..Len(pentries) :
                     pentries[e].label # ptext[i].label

\* ------------------------------------------------------------------- C37
\* C37: send_keys and send_keys_literal return Ok only after every byte
\* of the key sequence has been written to the master; when fewer bytes
\* were written, also after an OS write that returned 0, they return an
\* error.
C37_AllBytesOrError ==
    wrpc = "returned" =>
        /\ wret = "Ok" => offset = wlen
        /\ offset < wlen => wret = "Err"

\* ------------------------------------------------------------------- C35
\* Session t is live and has processes in the group with id g.
C35_GroupOf(t, g) ==
    /\ spc[t] = "live"
    /\ pid[t] = g
    /\ (leader[t] = "running" \/ other[t])

\* How often g is on the registry.
C35_Entries(reg, g) == Cardinality({i \in 1..Len(reg) : reg[i] = g})

\* C35: tearing down one session signals and unregisters only that
\* session's own group: a step of s's cleanup that sends SIGTERM or
\* SIGKILL does not send it to the group of another live session, and
\* none of its steps removes the registry entry of another live session;
\* also when s's child has been reaped and its pid is in use again.
C35_OwnGroupOnly ==
    [][\A s \in Sessions : \A t \in Sessions \ {s} :
          /\ (/\ spc[s] \in {"c_term", "c_final"}
              /\ Len(log'[s]) > Len(log[s])
              /\ log'[s][Len(log'[s])] \in {"term", "kill"})
               => ~C35_GroupOf(t, process_group[s])
          /\ (spc[s] = "c_unreg" /\ spc'[s] = "cleaned" /\ spc[t] = "live")
               => C35_Entries(registry', pid[t]) >= 1]_vars

\* ------------------------------------------------------------------- C36
\* C36: kill_registered_sessions sends a signal only to a group id that
\* is in the registry when the signal is sent; a session unregistered by
\* its own thread during the pause between SIGTERM and SIGKILL is not
\* signalled again.
C36_OnlyRegistered ==
    [][Len(klog') > Len(klog) =>
          \E i \in 1..Len(registry) : registry[i] = klog'[Len(klog')][2]]_vars

\* C34: run_gemini's prompt-wait loop always ends: every run that is in the
\* loop leaves it.  A pass is taken only while the wall clock since the
\* loop began is under the user's timeout and the capture changed within
\* the last 30 s; a pass that stays in the loop moves the wall clock on, a
\* dismissal included, so a dismissal resets the idle timer only.  The loop
\* is left for the stabilization step only with the prompt on the screen.
C34_PromptLoopEnds ==
    /\ (dpc = "g_prompt") ~> (dpc # "g_prompt")
    /\ [][(dpc = "g_prompt" /\ dpc' = "g_prompt"
            /\ <<dclock, last_activity, prev_content>>'
                 # <<dclock, last_activity, prev_content>>)
          => /\ dclock < cfgTimeout * 1000
             /\ dclock - last_activity < IdleTimeoutMs
             /\ dclock' > dclock
             /\ last_activity' <= dclock']_vars
    /\ [][(dpc = "g_prompt" /\ dpc' = "g_stab") => "prompt" \in dscreen]_vars

\* The loop ended on the wall clock, 31 s after it began, right after a
\* dismissal: the dismissals had kept the idle timer under 30 s.
C34_Witness ==
    /\ dpc = "end" /\ dresult = "timeout"
    /\ cfgTimeout = LongTimeout
    /\ dclock >= cfgTimeout * 1000
    /\ dclock - last_activity < IdleTimeoutMs
    /\ "update" \in dscreen /\ prev_content = {}

\* The dialog a capture of the driver in phase pc shows to its detector.
C39_Detected(pc, sc) ==
    IF pc = "c_usage" THEN DetectClaude(sc) ELSE DetectGemini(sc)

\* C39: after a data-wait loop of run_claude or run_gemini has dismissed a
\* dialog, the next capture of the session no longer shows it to the
\* detector, so the next check sends no dismissal keys.
C39_DismissedOnce ==
    [][(/\ dpc \in {"c_usage", "g_data"}
        /\ dpc' = dpc
        /\ dclock' # dclock
        /\ "pct" \notin dscreen
        /\ HandleDialog(C39_Detected(dpc, dscreen), policy) = "dismissed")
       => C39_Detected(dpc', dscreen') = "None"]_vars

\* C32: run_claude and run_codex type their usage command only after a
\* prompt wait has succeeded.  They wait for the prompt at most twice, and
\* a second time only after the first wait failed and the one dialog check
\* dismissed a dialog under Accept; the check is made exactly once after a
\* failed first wait and never otherwise; a failed first wait without a
\* dismissal and a failed retry return an error of the prompt stage, with
\* no command typed.
C32_PromptBeforeCommand ==
    gprov \in {"claude", "codex"} =>
      /\ Len(gwaits) <= 2 /\ gchecks <= 1 /\ gdismissals <= gchecks
      /\ gtyped # <<>> => (gwaits # <<>> /\ gwaits[Len(gwaits)] = "ok")
      /\ Len(gwaits) = 2 =>
           (gwaits[1] = "err" /\ gdismissals = 1 /\ policy = "Accept")
      /\ (gwaits # <<>> /\ gwaits[1] = "ok") => gchecks = 0
      /\ (gwaits # <<>> /\ gwaits[1] = "err") =>
           gchecks = (IF gpc = "check" THEN 0 ELSE 1)
      /\ (gwaits = <<"err">> /\ gpc # "check") =>
           IF gdismissals = 1 THEN gpc = "retry"
           ELSE gpc = "done" /\ gret \in {"prompt", "dialog"}
      /\ gwaits = <<"err", "err">> => (gpc = "done" /\ gret = "prompt")

\* run_codex typed `/status` after its first prompt wait had failed, a
\* dialog had been dismissed and the retry had succeeded.
C32_Witness ==
    /\ gprov = "codex"
    /\ gwaits = <<"err", "ok">>
    /\ gchecks = 1 /\ gdismissals = 1
    /\ gtyped = <<"/status">>

\* C33: run_claude types `/status` only when its `/usage` loop has ended on
\* the data timeout with usage_ready unset, and after `/usage`.  Right is
\* pressed only in the pass loop entered from a successful wait for the
\* status screen, at most four times, each time on a capture without
\* `% used`; a pass whose capture has `% used` presses nothing, and no
\* Right is pressed after the loop.
C33_FallbackOrder ==
    /\ [][(gprov = "claude" /\ gtyped' # gtyped
            /\ gtyped'[Len(gtyped')] = "/status")
          => /\ gtyped = <<"/usage">>
             /\ dresult = "not_ready"
             /\ ~DataLoopRuns(dclock, cfgTimeout)]_vars
    /\ [][grights' # grights
          => /\ gpc = "rights" /\ gprov = "claude"
             /\ grights' = grights + 1 /\ grights' <= RightPresses
             /\ "pct" \notin dscreen]_vars
    /\ [][(gpc' = "rights" /\ gpc # "rights")
          => (gpc = "status" /\ grights = 0
              /\ gtyped = <<"/usage", "/status">>)]_vars
    /\ [][(gpc = "rights" /\ gpc' # "rights")
          => gpc' = (IF "pct" \in dscreen /\ grights < RightPresses
                       THEN "render" ELSE "late")]_vars

\* Two Rights were pressed, then a capture had `% used` and the driver went
\* on to the stabilization.
C33_Witness ==
    /\ gprov = "claude"
    /\ gtyped = <<"/usage", "/status">>
    /\ grights = 2
    /\ gpc = "render"

\* C38: the stabilization steps are best-effort: whatever wait_for_stable
\* returns, with the shutdown flag set too, the driver goes on to the next
\* stage (the command after the prompt, the final capture after the data)
\* and returns no error of the stabilization.
C38_StabilizeBestEffort ==
    /\ [][Len(gstab') > Len(gstab)
          => /\ gpc' = (IF gpc = "stab" THEN "type" ELSE "capture")
             /\ gret' = "none"]_vars
    /\ [](gret # "stab")

\* Both stabilization steps of run_gemini failed and it returned data.
C38_Witness ==
    /\ gprov = "gemini"
    /\ gstab = <<"err", "err">>
    /\ gret = "ok"

====
